---------------------------- MODULE Spec2Model ----------------------------
(***************************************************************************)
(* Model of the trichotillomania-reminder core:                            *)
(*   - the trigger state machine of HairPullingDetector                    *)
(*     (src/hair_pulling_detector.py, _check_for_pulling/_trigger_alert),  *)
(*   - the TTS cache and playback of AudioManager (src/audio_manager.py).  *)
(*                                                                         *)
(* Time is counted in ticks of 0.05 s, so that the program's constants are *)
(* integers: the 0.1 s grace window is 2 ticks, the default                *)
(* required_duration of 0.75 s is 15 ticks and the default                 *)
(* trigger_cooldown of 3 s is 60 ticks.  File sizes and the cache limit    *)
(* are counted in MB.                                                      *)
(***************************************************************************)
EXTENDS Integers, Sequences, FiniteSets, TLC

VARIABLES
    \* ---- HairPullingDetector ----
    state,                   \* self.state
    hand_near_head_time,     \* self.hand_near_head_time ("since")
    hand_near_head_duration, \* self.hand_near_head_duration
    last_triggered,          \* self.last_triggered
    last_hand_near_head,     \* self.last_hand_near_head
    required_duration,       \* config.detection['required_duration'] (ticks)
    trigger_cooldown,        \* config.detection['trigger_cooldown'] (ticks)
    now,                     \* the last value time.time() returned
    \* ---- observation of the detector (history, not program state) ----
    frame_near,              \* the proximity signal of the last frame
    fired,                   \* the last frame called play_message/add_trigger
    prev_triggered,          \* last_triggered as it was before the last trigger
    trigger_count,           \* number of trigger callbacks so far
    run_start,               \* time of the frame that began the current run, -1: none
    pulls_in_run,            \* entries into PULLING since run_start
    entered_detecting,       \* time of the last frame that left IDLE for DETECTING
    last_near_frame,         \* time of the last frame with near = TRUE
    scenario,                \* TRUE: the frames follow the concrete scenario
    \* ---- AudioManager ----
    use_tts,                 \* self.use_tts
    audio_files,             \* self.audio_files (stock audio pool)
    temp_files,              \* self.temp_files
    playback_lock,           \* self._playback_lock: 0 free, else the holder
    tts_cache_limit,         \* config.audio['tts_cache_limit'] (MB)
    cache_files,             \* the files of cache_folder: [key, size, mtime, atime]
    fs_clock,                \* the file system's clock
    music,                   \* the file pygame.mixer.music has loaded, 0: none
    playing,                 \* pygame.mixer.music.get_busy()
    \* ---- the background threads running _play_tts_message ----
    pc,                      \* where each thread is
    message,                 \* its message argument
    current_size,            \* current_size_mb of its _enforce_cache_limit
    file_list,               \* files of its _enforce_cache_limit, sorted
    file_path,               \* file_path popped by its _enforce_cache_limit, 0: none
    \* ---- observation of the audio manager (history, not program state) ----
    plays,                   \* number of play_message calls so far
    did_synth,               \* the thread's call has synthesized
    tried_failed,            \* files whose deletion failed in the thread's pass
    failed_logged,           \* files left in place by a logged failed deletion
    last_evict,              \* what the last eviction left behind
    replaced,                \* a load has cut off a stream that was playing
    prev_done,               \* the call completed before the last one
    last_done,               \* the last completed _play_tts_message call
    cache_mode,              \* "free", "seq" (one call at a time), "ten" (scenario)
    \* ---- the detection thread inside play_message ----
    det_waiting,             \* blocked on "with self._playback_lock" (line 227)
    \* ---- the landmarks of the frame and the proximity settings ----
    scene_hands,             \* the hands in front of the camera
    hand_results,            \* hand_results of the last frame processed
    face_results,            \* face_results of the last frame processed
    full_head_detection,     \* config.detection['full_head_detection']
    max_head_distance,       \* config.detection['max_head_distance'] (px)
    contact_points,          \* self.contact_points
    above_eye_points,        \* self.above_eye_points
    \* ---- shutdown: AudioManager.cleanup ----
    windows,                 \* the platform: OSError has the attribute winerror
    mixer_init,              \* pygame.mixer is initialized
    cl_pc,                   \* where the thread calling cleanup is
    cleanups,                \* cleanup calls that have returned
    cl_todo,                 \* what is left of the copy temp_files[:]
    cl_attempt,              \* attempt of the running _delete_temp_file_with_retry
    failed_deletions,        \* failed_deletions of cleanup
    \* ---- observation of cleanup (history, not program state) ----
    del_result,              \* how the last _delete_temp_file_with_retry ended
    cl_registered,           \* the temp files registered when cleanup looked
    cl_attempted,            \* the files whose deletion the call attempted
    cl_deleted,              \* the files the deletion loop of cleanup removed
    cl_reported,             \* the failed deletions the call reported
    \* ---- the detection thread ----
    loop_alive,              \* _detection_loop has not terminated
    notify_failed,           \* history: the step of the last trigger that raised
    \* ---- the audio device ----
    device_ok,               \* the mixer's audio device is usable
    play_failed,             \* history: a load/play has failed on the device
    \* ---- shutdown: HairPullingDetector.cleanup ----
    running,                 \* self.running
    det_pc,                  \* where the detection thread is in _detection_loop
    hd_pc,                   \* where the thread calling cleanup is
    \* ---- the configuration objects ----
    default_config,          \* ConfigManager.DEFAULT_CONFIG (a class attribute)
    config_shared,           \* the Config of the UI holds DEFAULT_CONFIG's dicts
    config_rebound           \* reset_config has given the detector a new Config

detVars == <<state, hand_near_head_time, hand_near_head_duration, last_triggered,
             last_hand_near_head, required_duration, trigger_cooldown, now,
             frame_near, fired, prev_triggered, trigger_count, run_start,
             pulls_in_run, entered_detecting, last_near_frame, scenario>>

audVars == <<use_tts, audio_files, temp_files, playback_lock, tts_cache_limit,
             cache_files, fs_clock, music, playing, pc, message, current_size,
             file_list, file_path, plays, did_synth, tried_failed, failed_logged,
             last_evict, replaced, prev_done, last_done, cache_mode>>

\* the caller of play_message, the application's threads and its shutdown
lmVars == <<scene_hands, hand_results, face_results, full_head_detection,
            max_head_distance, contact_points, above_eye_points>>

shutVars == <<windows, mixer_init, cl_pc, cleanups, cl_todo, cl_attempt,
              failed_deletions, del_result, cl_registered, cl_attempted,
              cl_deleted, cl_reported>>

loopVars == <<loop_alive, notify_failed>>

devVars == <<device_ok, play_failed>>

quitVars == <<running, det_pc, hd_pc>>

cfgVars == <<default_config, config_shared, config_rebound>>

othVars == <<det_waiting, shutVars, loopVars, devVars>>

appVars == <<lmVars, othVars, quitVars, cfgVars>>

vars == <<detVars, audVars, appVars>>

-----------------------------------------------------------------------------
(* Program constants, in ticks of 0.05 s *)

\* the grace window "> 0.1" of _check_for_pulling
GraceTicks == 2
\* DEFAULT_CONFIG detection.required_duration = 0.75
DefaultRequiredDuration == 15
\* DEFAULT_CONFIG detection.trigger_cooldown = 3
DefaultTriggerCooldown == 60

(* Bounds of the model *)

\* the detector is observed for this many ticks after start
MaxTime == 16
\* largest number of ticks between two frames
MaxDt == 3

\* configurations explored: required_duration 0 s, 0.1 s, 0.2 s;
\* trigger_cooldown 0 s and 0.3 s (in ticks)
Durations == {0, 2, 4}
Cooldowns == {0, 6}

\* time.time() is seconds since the epoch: larger than any cooldown, so the
\* first trigger is never held back by last_triggered = 0
StartTime == DefaultTriggerCooldown + 1

-----------------------------------------------------------------------------
(* HairPullingDetector: the state machine *)

\* line 231: hand_near_head_duration >= required_duration
DurationReachedStrict(duration, required) == duration > required

DurationReached(duration, required) == duration >= required

GraceExpiredAtOnce(t, last_near) == t - last_near > 0

GraceExpiredLate(t, last_near) == t - last_near > GraceTicks + MaxDt

\* line 235: current_time - last_hand_near_head > 0.1
GraceExpired(t, last_near) == t - last_near > GraceTicks

\* line 242: (current_time - last_triggered) > trigger_cooldown
CooldownPassedInclusive(t, last, cooldown) == t - last >= cooldown

CooldownPassedSwapped(t, last, cooldown) == last - t > cooldown

CooldownPassed(t, last, cooldown) == t - last > cooldown

\* lines 226-228: hand_near_head_time is set on leaving IDLE
SinceOnNearStale(d, t) == IF d.since = 0 THEN t ELSE d.since

SinceOnNear(d, t) == IF d.state = "IDLE" THEN t ELSE d.since

\* a variant whose near = false branch clears the duration on every frame
\* and returns to IDLE only after the grace window
CheckForPullingClearsInGrace(d, near, t) ==
    IF near
    THEN LET st1   == IF d.state = "IDLE" THEN "DETECTING" ELSE d.state
             since == SinceOnNear(d, t)
             dur   == t - since
         IN [state      |-> IF DurationReached(dur, required_duration) /\ st1 = "DETECTING"
                            THEN "PULLING" ELSE st1,
             since      |-> since,
             duration   |-> dur,
             last_near  |-> t,
             last_trig  |-> d.last_trig]
    ELSE IF GraceExpired(t, d.last_near)
         THEN [d EXCEPT !.state = "IDLE", !.duration = 0]
         ELSE [d EXCEPT !.duration = 0]

\* _check_for_pulling on the detector fields d, with hand_near = near at
\* current_time = t; yields the fields after the call
CheckForPulling(d, near, t) ==
    IF near
    THEN LET st1   == IF d.state = "IDLE" THEN "DETECTING" ELSE d.state
             since == SinceOnNear(d, t)
             dur   == t - since
         IN [state      |-> IF DurationReached(dur, required_duration) /\ st1 = "DETECTING"
                            THEN "PULLING" ELSE st1,
             since      |-> since,
             duration   |-> dur,
             last_near  |-> t,
             last_trig  |-> d.last_trig]
    ELSE IF GraceExpired(t, d.last_near)
         THEN [d EXCEPT !.state = "IDLE", !.duration = 0]
         ELSE d

TriggerFiresNoCooldown(d, t) ==
    /\ d.state = "PULLING"
    /\ DurationReached(d.duration, required_duration)

\* whether _trigger_alert, reading the clock as t, fires
TriggerFires(d, t) ==
    /\ d.state = "PULLING"
    /\ CooldownPassed(t, d.last_trig, trigger_cooldown)
    /\ DurationReached(d.duration, required_duration)

TriggerAlertHeld(d, t) ==
    IF TriggerFires(d, t) THEN [d EXCEPT !.last_trig = t] ELSE d

\* _trigger_alert on the detector fields d
TriggerAlert(d, t) ==
    IF TriggerFires(d, t)
    THEN [d EXCEPT !.last_trig = t, !.state = "IDLE"]
    ELSE d

Fields ==
    [state |-> state, since |-> hand_near_head_time,
     duration |-> hand_near_head_duration, last_near |-> last_hand_near_head,
     last_trig |-> last_triggered]

\* the concrete scenario: near for 1.0 s, not near for 5 s, near for 1.0 s;
\* o is the frame's time since start, frames are 0.05 s to 0.1 s apart
ScenarioEnd == 20 + 100 + 20
ScenarioDts == 1..2
ScenarioNear(o) == o <= 20 \/ (o > 20 + 100 /\ o <= ScenarioEnd)

Horizon == IF scenario THEN ScenarioEnd ELSE MaxTime

\* One iteration of _detection_loop: _check_for_pulling reads the clock as
\* now + dt, _trigger_alert reads it again, lag ticks later, when the state
\* is PULLING.
FrameStep(dt, near, lag) ==
    LET t1 == now + dt
        d1 == CheckForPulling(Fields, near, t1)
        t2 == IF d1.state = "PULLING" THEN t1 + lag ELSE t1
        d2 == TriggerAlert(d1, t2)
        fires == TriggerFires(d1, t2)
        entered == d1.state = "PULLING" /\ state # "PULLING"
        \* a run begins with a near frame that finds no run open, and ends
        \* with the near=false frame that finds the grace window expired
        begins == near /\ run_start = -1
        ends == ~near /\ GraceExpired(t1, last_hand_near_head)
    IN /\ loop_alive
       /\ t2 <= StartTime + Horizon
       /\ state' = d2.state
       /\ hand_near_head_time' = d2.since
       /\ hand_near_head_duration' = d2.duration
       /\ last_hand_near_head' = d2.last_near
       /\ last_triggered' = d2.last_trig
       /\ now' = t2
       /\ frame_near' = near
       /\ fired' = fires
       /\ prev_triggered' = IF fires THEN last_triggered ELSE prev_triggered
       /\ trigger_count' = IF fires THEN trigger_count + 1 ELSE trigger_count
       /\ run_start' = IF ends THEN -1 ELSE IF begins THEN t1 ELSE run_start
       /\ pulls_in_run' = IF ends THEN 0
                          ELSE (IF begins THEN 0 ELSE pulls_in_run)
                               + (IF entered THEN 1 ELSE 0)
       /\ entered_detecting' = IF state = "IDLE" /\ d1.state # "IDLE"
                               THEN t1 ELSE entered_detecting
       /\ last_near_frame' = IF near THEN t1 ELSE last_near_frame
       /\ UNCHANGED <<required_duration, trigger_cooldown, scenario>>
       /\ UNCHANGED <<audVars, othVars>>

\* a frame of an arbitrary frame sequence
Frame ==
    /\ ~scenario
    /\ \E dt \in 1..MaxDt, near \in BOOLEAN, lag \in 0..1 : FrameStep(dt, near, lag)
    /\ UNCHANGED <<lmVars, quitVars, cfgVars>>

\* the steps of _trigger_alert after last_triggered is set that can raise in
\* the detection thread: Thread(...).start() of play_message (line 221 of
\* audio_manager.py) and stats.add_trigger(), whose save_stats writes
\* hair_stats.json (stats_manager.py, lines 74-75)
NotificationSteps == {"thread_start", "add_trigger"}

\* _trigger_alert (lines 244-247) when the step raises: last_triggered is
\* set, line 247 is not reached
TriggerAlertRaises(d, t) == [d EXCEPT !.last_trig = t]

\* One iteration of _detection_loop whose trigger fires and whose
\* notification raises: line 290 catches the exception outside the while
\* loop, which ends
FrameNotificationRaises(dt, near, lag, step) ==
    LET t1 == now + dt
        d1 == CheckForPulling(Fields, near, t1)
        t2 == t1 + lag
        d2 == TriggerAlertRaises(d1, t2)
    IN /\ loop_alive
       /\ ~scenario
       /\ t2 <= StartTime + Horizon
       /\ TriggerFires(d1, t2)
       /\ state' = d2.state
       /\ hand_near_head_time' = d2.since
       /\ hand_near_head_duration' = d2.duration
       /\ last_hand_near_head' = d2.last_near
       /\ last_triggered' = d2.last_trig
       /\ now' = t2
       /\ frame_near' = near
       /\ fired' = (step = "add_trigger")
       /\ prev_triggered' = last_triggered
       /\ trigger_count' = IF step = "add_trigger" THEN trigger_count + 1
                           ELSE trigger_count
       /\ pulls_in_run' = (IF near /\ run_start = -1 THEN 0 ELSE pulls_in_run)
                          + (IF state # "PULLING" THEN 1 ELSE 0)
       /\ run_start' = IF near /\ run_start = -1 THEN t1 ELSE run_start
       /\ entered_detecting' = IF state = "IDLE" THEN t1 ELSE entered_detecting
       /\ last_near_frame' = IF near THEN t1 ELSE last_near_frame
       /\ loop_alive' = FALSE
       /\ notify_failed' = step
       /\ UNCHANGED <<required_duration, trigger_cooldown, scenario>>
       /\ UNCHANGED <<audVars, lmVars, det_waiting, shutVars, devVars, quitVars, cfgVars>>

\* a frame whose trigger notification raises
FrameRaises ==
    \E dt \in 1..MaxDt, near \in BOOLEAN, lag \in 0..1, step \in NotificationSteps :
        FrameNotificationRaises(dt, near, lag, step)


-----------------------------------------------------------------------------
(* HairPullingDetector._hand_near_head: the proximity evaluation            *)
(*                                                                         *)
(* A landmark is [x, y, z] in hundredths of the normalized range, a pixel   *)
(* coordinate is counted in tenths of a pixel.  A hand is the set of its    *)
(* landmarks, a face the function from landmark index to landmark.          *)

\* camera_manager.py: CAP_PROP_FRAME_WIDTH / CAP_PROP_FRAME_HEIGHT
FrameWidth == 640
FrameHeight == 480
\* line 138: min(right_eye_y, left_eye_y) - 0.05, in hundredths
EyeOffset == 5
\* line 182: distance_3d < 20.0
ContactRadius == 20
\* lines 190, 205: len(above_eye_landmarks) >= 3
MinAboveEye == 3
\* DEFAULT_CONFIG detection.max_head_distance
DefaultMaxHeadDistance == 100
\* GestureDetector.RIGHT_EYE, LEFT_EYE, FOREHEAD, CHIN
RIGHT_EYE == 159
LEFT_EYE == 386
FOREHEAD == 10
CHIN == 152
\* a face mesh landmark of the forehead side with an odd index
OddForehead == 109

Landmark(x, y, z) == [x |-> x, y |-> y, z |-> z]

\* int(v) of Python for v = a / b: truncation towards zero
Trunc(a, b) == IF a >= 0 THEN a \div b ELSE -((-a) \div b)

Min2(a, b) == IF a <= b THEN a ELSE b

\* lines 136-139: eye_level_pixels
EyeLevelPixels(face) ==
    Trunc((Min2(face[RIGHT_EYE].y, face[LEFT_EYE].y) - EyeOffset) * FrameHeight, 100)

\* lm.x * w, lm.y * h, lm.z * w (tenths of a pixel)
PixelX(lm) == (lm.x * FrameWidth) \div 10
PixelY(lm) == (lm.y * FrameHeight) \div 10
PixelZ(lm) == (lm.z * FrameWidth) \div 10

\* lines 147, 160: y <= eye_level_pixels
AboveEyeLevel(lm, eye_level_pixels) == PixelY(lm) <= eye_level_pixels * 10

SampledOdd(i) == i % 2 = 1

\* lines 147, 167: i % 2 == 0
Sampled(i) == i % 2 = 0

\* np.linalg.norm(hand_point_3d - face_point_3d), squared
DistanceSq(p, q) ==
    (PixelX(p) - PixelX(q)) * (PixelX(p) - PixelX(q))
    + (PixelY(p) - PixelY(q)) * (PixelY(p) - PixelY(q))
    + (PixelZ(p) - PixelZ(q)) * (PixelZ(p) - PixelZ(q))

\* distance_3d < d, for d in pixels
Within(p, q, d) == DistanceSq(p, q) < (d * 10) * (d * 10)

\* lines 145-151: face_points_above_eye_3d
FacePointsAboveEye(face) ==
    {i \in DOMAIN face : Sampled(i) /\ AboveEyeLevel(face[i], EyeLevelPixels(face))}

\* lines 165-171: face_points_3d
FacePoints(face) == {i \in DOMAIN face : Sampled(i)}

\* lines 155-161: above_eye_landmarks
AboveEyeLandmarks(hand, face) ==
    {lm \in hand : AboveEyeLevel(lm, EyeLevelPixels(face))}

ContactAboveEyeOnly(hand, face) ==
    \E lm \in AboveEyeLandmarks(hand, face), i \in FacePoints(face) :
        Within(lm, face[i], ContactRadius)

\* lines 173-187: the contact check of full-head detection
ContactFound(hand, face) ==
    \E lm \in hand, i \in FacePoints(face) : Within(lm, face[i], ContactRadius)

EnoughAboveEyeOne(above) == Cardinality(above) >= 1

\* lines 190, 205: len(above_eye_landmarks) >= 3
EnoughAboveEye(above) == Cardinality(above) >= MinAboveEye

\* lines 190-202, 205-217: the above-eye check
AboveEyeFound(hand, face) ==
    LET above == AboveEyeLandmarks(hand, face)
    IN /\ EnoughAboveEye(above)
       /\ \E lm \in above, i \in FacePointsAboveEye(face) :
             Within(lm, face[i], max_head_distance)

\* a full-head mode that checks contact only
HandMatchesContactOnly(full, hand, face) ==
    IF full THEN ContactFound(hand, face) ELSE AboveEyeFound(hand, face)

\* lines 163-217 with config.detection['full_head_detection'] = full
HandMatchesIn(full, hand, face) ==
    IF full
    THEN ContactFound(hand, face) \/ AboveEyeFound(hand, face)
    ELSE AboveEyeFound(hand, face)

\* lines 163-217: the body of the loop over the hands
HandMatches(hand, face) == HandMatchesIn(full_head_detection, hand, face)

\* lines 153-219: the loop over hand_results.multi_hand_landmarks
RECURSIVE AnyHandMatches(_, _)
AnyHandMatches(hands, face) ==
    IF hands = <<>> THEN FALSE
    ELSE IF HandMatches(Head(hands), face) THEN TRUE
    ELSE AnyHandMatches(Tail(hands), face)

\* _hand_near_head(hand_results, face_results) with full_head_detection = full
HandNearHeadIn(full, hr, fr) ==
    IF hr.multi_hand_landmarks = <<>> \/ ~fr.present \/ fr.multi_face_landmarks = <<>>
    THEN FALSE
    ELSE \E n \in DOMAIN hr.multi_hand_landmarks :
            HandMatchesIn(full, hr.multi_hand_landmarks[n], fr.multi_face_landmarks[1])

\* _hand_near_head(hand_results, face_results)
HandNearHeadHandsOnly(hr, fr) == hr.multi_hand_landmarks # <<>>

HandNearHead(hr, fr) ==
    IF hr.multi_hand_landmarks = <<>> \/ ~fr.present \/ fr.multi_face_landmarks = <<>>
    THEN FALSE
    ELSE AnyHandMatches(hr.multi_hand_landmarks, fr.multi_face_landmarks[1])

\* results without landmarks, and a falsy face result
NoHands == [multi_hand_landmarks |-> <<>>]
NoFaces == [present |-> TRUE, multi_face_landmarks |-> <<>>]
NoFaceResult == [present |-> FALSE, multi_face_landmarks |-> <<>>]

\* the face in front of the camera: forehead at (0.5, 0.12, 0), eyes at
\* y = 0.31 and 0.32, chin at (0.5, 0.6, 0)
SceneFace ==
    [i \in {FOREHEAD, OddForehead, CHIN, RIGHT_EYE, LEFT_EYE} |->
        IF i = FOREHEAD THEN Landmark(50, 12, 0)
        ELSE IF i = OddForehead THEN Landmark(30, 10, 0)
        ELSE IF i = CHIN THEN Landmark(50, 60, 0)
        ELSE IF i = RIGHT_EYE THEN Landmark(45, 31, 0)
        ELSE Landmark(55, 32, 0)]

\* hand landmarks: at the forehead, at the chin, far to the side, at the
\* forehead but nearer to the camera, at the odd forehead landmark, and
\* just below the eye line
AtForehead == Landmark(50, 10, 0)
AtChin == Landmark(50, 57, 0)
FarAbove == Landmark(10, 5, 0)
InFront == Landmark(50, 10, -10)
AtOddForehead == Landmark(30, 11, 0)
BelowEyeLine == Landmark(50, 27, 0)

HandLandmarks == {AtForehead, AtChin, FarAbove, InFront, AtOddForehead, BelowEyeLine}
Hands == SUBSET HandLandmarks \ {{}}

\* one hand, or a far hand followed by a second hand
Scenes == {<<h>> : h \in Hands} \cup {<<{FarAbove}, h>> : h \in Hands}

MaxHeadDistances == {10, 50, DefaultMaxHeadDistance}

\* what the landmark models return for the scene
Visibilities == {"both", "no_hand", "no_face", "no_face_result"}

HandResultsOf(vis) ==
    IF vis = "no_hand" THEN NoHands ELSE [multi_hand_landmarks |-> scene_hands]

FaceResultsOf(vis) ==
    IF vis = "no_face" THEN NoFaces
    ELSE IF vis = "no_face_result" THEN NoFaceResult
    ELSE [present |-> TRUE, multi_face_landmarks |-> <<SceneFace>>]

\* hand_landmarks.landmark and face_landmarks.landmark are lists: the order
\* in which the loops of _hand_near_head visit the landmarks
HandOrder == <<AtForehead, AtChin, FarAbove, InFront, AtOddForehead, BelowEyeLine>>

InHand(hand, lm) == lm \in hand
InAbove(above, lm) == lm \in above

\* the landmarks of a hand, in the order of the list
LandmarksOf(hand) ==
    LET Member(lm) == InHand(hand, lm) IN SelectSeq(HandOrder, Member)

\* lines 183, 197, 212: (int(hand_x), int(hand_y))
Point(lm) == <<Trunc(lm.x * FrameWidth, 100), Trunc(lm.y * FrameHeight, 100)>>

\* a scan that goes on after a match and records every matching landmark
RECURSIVE EveryMatch(_, _, _, _)
EveryMatch(lms, points, face, d) ==
    IF lms = <<>> THEN <<>>
    ELSE (IF \E i \in points : Within(Head(lms), face[i], d)
          THEN <<Point(Head(lms))>> ELSE <<>>)
         \o EveryMatch(Tail(lms), points, face, d)

\* the nested loops over the hand landmarks and the face points (lines
\* 173-187, 191-202, 206-217): the first pair nearer than d appends the
\* point of its hand landmark and returns
RECURSIVE FirstMatch(_, _, _, _)
FirstMatch(lms, points, face, d) ==
    IF lms = <<>> THEN <<>>
    ELSE IF \E i \in points : Within(Head(lms), face[i], d)
         THEN <<Point(Head(lms))>>
         ELSE FirstMatch(Tail(lms), points, face, d)

\* the points the body of the loop records for one hand (lines 163-217)
ScanHand(hand, face) ==
    LET above   == AboveEyeLandmarks(hand, face)
        Member(lm) == InAbove(above, lm)
        contact == IF full_head_detection
                   THEN FirstMatch(LandmarksOf(hand), FacePoints(face), face, ContactRadius)
                   ELSE <<>>
        aboveEye == IF contact = <<>> /\ EnoughAboveEye(above)
                    THEN FirstMatch(SelectSeq(HandOrder, Member),
                                    FacePointsAboveEye(face), face, max_head_distance)
                    ELSE <<>>
    IN [contact |-> contact, above |-> aboveEye]

\* the loop over the hands (lines 153-219): it returns at the first hand
\* that records a point
RECURSIVE ScanHands(_, _)
ScanHands(hands, face) ==
    IF hands = <<>> THEN [contact |-> <<>>, above |-> <<>>]
    ELSE LET r == ScanHand(Head(hands), face)
         IN IF r.contact # <<>> \/ r.above # <<>> THEN r
            ELSE ScanHands(Tail(hands), face)

\* an evaluation that empties the lists before it looks at the landmarks
RecordedPointsFresh(hr, fr) ==
    IF hr.multi_hand_landmarks = <<>> \/ ~fr.present \/ fr.multi_face_landmarks = <<>>
    THEN [contact |-> <<>>, above |-> <<>>]
    ELSE ScanHands(hr.multi_hand_landmarks, fr.multi_face_landmarks[1])

\* contact_points and above_eye_points after _hand_near_head: line 129
\* returns before lines 141-142 empty the lists
RecordedPoints(hr, fr) ==
    IF hr.multi_hand_landmarks = <<>> \/ ~fr.present \/ fr.multi_face_landmarks = <<>>
    THEN [contact |-> contact_points, above |-> above_eye_points]
    ELSE ScanHands(hr.multi_hand_landmarks, fr.multi_face_landmarks[1])

\* one iteration of _detection_loop on the landmarks of the scene
FrameLandmarks ==
    /\ ~scenario
    /\ \E vis \in Visibilities :
          /\ hand_results' = HandResultsOf(vis)
          /\ face_results' = FaceResultsOf(vis)
          /\ contact_points' = RecordedPoints(HandResultsOf(vis), FaceResultsOf(vis)).contact
          /\ above_eye_points' = RecordedPoints(HandResultsOf(vis), FaceResultsOf(vis)).above
          /\ FrameStep(MaxDt, HandNearHead(HandResultsOf(vis), FaceResultsOf(vis)), 0)
    /\ UNCHANGED <<scene_hands, full_head_detection, max_head_distance>>
    /\ UNCHANGED <<quitVars, cfgVars>>

-----------------------------------------------------------------------------
(* AudioManager: the TTS cache and playback *)

\* config.audio.get('tts_cache_limit', 50.0)
DefaultCacheLimit == 50

\* shutdown has begun: HairPullingDetector.cleanup has cleared running and
\* joined the detection thread, the UI is closing
ShutdownBegun == cleanups > 0 \/ cl_pc # "idle"

\* the background threads that can be alive at once
Workers == {1, 2}
\* phrases of phrases.json; the audio of phrase m is m MB long
NumMessages == 3
\* play_message calls in a run
MaxPlays == 4

\* cache limits explored (MB)
Limits == {2, 4}

\* the stock audio pool of a stock_audio folder that holds audio files
StockFiles == {-1, -2}

\* self.phrases (one phrase and two calls fewer where threads interleave)
Phrases ==
    IF cache_mode = "ten" THEN 1..10
    ELSE IF cache_mode = "seq" THEN 1..NumMessages
    ELSE 1..(NumMessages - 1)

\* size in MB of the audio gTTS writes for a message
SizeOf(m) == IF cache_mode = "ten" THEN 2 ELSE m

PlaysBound ==
    IF cache_mode = "ten" THEN 10
    ELSE IF cache_mode = "seq" THEN MaxPlays
    ELSE MaxPlays - 2

\* hashlib.md5(message).hexdigest(): a digest that depends on the text alone
\* and differs between the phrases
MD5(m) == (7 * m) % 11

\* _get_cached_audio_path: cache_folder/tts_<digest>.mp3, named by its digest
CachedAudioPath(m) == MD5(m)

\* os.path.exists(path) for a path of the cache folder
Exists(path) == \E f \in cache_files : f.key = path

FileAt(path) == CHOOSE f \in cache_files : f.key = path

RECURSIVE SumSizes(_)
SumSizes(S) ==
    IF S = {} THEN 0
    ELSE LET f == CHOOSE x \in S : TRUE IN f.size + SumSizes(S \ {f})

\* _get_cache_size
CacheSize == SumSizes(cache_files)

NewestFirst(a, b) == a.mtime >= b.mtime

\* files.sort(key=lambda x: x[1]): by modification time, oldest first
OldestFirst(a, b) == a.mtime <= b.mtime

RECURSIVE SortByMtime(_)
SortByMtime(S) ==
    IF S = {} THEN <<>>
    ELSE LET f == CHOOSE x \in S : \A y \in S : OldestFirst(x, y)
         IN <<f.key>> \o SortByMtime(S \ {f})

NoFile == [key |-> 0, size |-> 0]
NoEvict == [key |-> 0, older_mtime_left |-> FALSE, older_access_left |-> FALSE]
NoCall == [msg |-> 0, synth |-> FALSE, resolved |-> FALSE]

ResolvePcs == {"start", "synth", "register", "enforce", "enf_list", "enf_loop", "enf_del"}

\* the record of a completed _play_tts_message call (kept when calls run one
\* at a time)
Done(w, resolved) ==
    IF cache_mode = "seq"
    THEN /\ prev_done' = last_done
         /\ last_done' = [msg |-> message[w], synth |-> did_synth[w], resolved |-> resolved]
    ELSE UNCHANGED <<prev_done, last_done>>

\* the thread ends: its locals are gone
ThreadEnds(w) ==
    /\ pc' = [pc EXCEPT ![w] = "idle"]
    /\ message' = [message EXCEPT ![w] = 0]
    /\ did_synth' = [did_synth EXCEPT ![w] = FALSE]
    /\ tried_failed' = [tried_failed EXCEPT ![w] = {}]

\* play_message, TTS mode: starts a thread on _play_tts_message(message)
PlayMessageTts(w, m) ==
    /\ ~det_waiting
    /\ ~ShutdownBegun
    /\ use_tts
    /\ plays < PlaysBound
    /\ pc[w] = "idle"
    /\ \A v \in Workers : v < w => pc[v] # "idle"
    /\ m \in Phrases
    /\ cache_mode = "seq" => \A v \in Workers : pc[v] = "idle"
    /\ cache_mode = "ten" => m = plays + 1 /\ \A v \in Workers : pc[v] \notin ResolvePcs
    /\ pc' = [pc EXCEPT ![w] = "start"]
    /\ message' = [message EXCEPT ![w] = m]
    /\ did_synth' = [did_synth EXCEPT ![w] = FALSE]
    /\ tried_failed' = [tried_failed EXCEPT ![w] = {}]
    /\ plays' = plays + 1
    /\ UNCHANGED <<detVars, appVars>>
    /\ UNCHANGED <<use_tts, audio_files, temp_files, playback_lock, tts_cache_limit,
                   cache_files, fs_clock, music, playing, current_size, file_list,
                   file_path, failed_logged, last_evict, replaced, prev_done,
                   last_done, cache_mode>>

\* play_message, stock mode: load and play under the lock, then return; a
\* load or play that raises is logged at line 231
PlayMessageStock ==
    /\ ~det_waiting
    /\ ~ShutdownBegun
    /\ ~use_tts
    /\ audio_files # {}
    /\ plays < PlaysBound
    /\ playback_lock = 0
    /\ IF device_ok
       THEN /\ \E f \in audio_files : music' = f
            /\ playing' = TRUE
            /\ replaced' = (replaced \/ playing)
       ELSE UNCHANGED <<music, playing, replaced>>
    /\ play_failed' = (play_failed \/ ~device_ok)
    /\ plays' = plays + 1
    /\ UNCHANGED <<detVars, lmVars, det_waiting, shutVars, loopVars, device_ok,
                   quitVars, cfgVars>>
    /\ UNCHANGED <<use_tts, audio_files, temp_files, playback_lock, tts_cache_limit,
                   cache_files, fs_clock, pc, message, current_size, file_list,
                   file_path, did_synth, tried_failed, failed_logged, last_evict,
                   prev_done, last_done, cache_mode>>

\* _play_tts_message, lines 196-198: the path and the existence test
TtsStart(w) ==
    /\ pc[w] = "start"
    /\ pc' = [pc EXCEPT ![w] = IF Exists(CachedAudioPath(message[w]))
                                THEN "lock_play" ELSE "synth"]
    /\ UNCHANGED <<detVars, appVars>>
    /\ UNCHANGED <<use_tts, audio_files, temp_files, playback_lock, tts_cache_limit,
                   cache_files, fs_clock, music, playing, message, current_size,
                   file_list, file_path, plays, did_synth, tried_failed,
                   failed_logged, last_evict, replaced, prev_done, last_done,
                   cache_mode>>

\* lines 200-201: gTTS(...).save(audio_file) writes the file
TtsSynth(w) ==
    /\ pc[w] = "synth"
    /\ LET k == CachedAudioPath(message[w])
       IN /\ cache_files' = {f \in cache_files : f.key # k} \cup
                 {[key |-> k, size |-> SizeOf(message[w]),
                   mtime |-> fs_clock + 1, atime |-> fs_clock + 1]}
          /\ failed_logged' = failed_logged \ {k}
    /\ fs_clock' = fs_clock + 1
    /\ did_synth' = [did_synth EXCEPT ![w] = TRUE]
    /\ pc' = [pc EXCEPT ![w] = "register"]
    /\ UNCHANGED <<detVars, appVars>>
    /\ UNCHANGED <<use_tts, audio_files, temp_files, playback_lock, tts_cache_limit,
                   music, playing, message, current_size, file_list, file_path,
                   plays, tried_failed, last_evict, replaced, prev_done, last_done,
                   cache_mode>>

\* lines 200-201 raise (the TTS service fails): line 212 logs, the thread ends
TtsSynthFails(w) ==
    /\ pc[w] = "synth"
    /\ cache_mode # "ten"
    /\ ThreadEnds(w)
    /\ Done(w, FALSE)
    /\ UNCHANGED <<detVars, appVars>>
    /\ UNCHANGED <<use_tts, audio_files, temp_files, playback_lock, tts_cache_limit,
                   cache_files, fs_clock, music, playing, current_size,
                   file_list, file_path, plays,
                   failed_logged, last_evict, replaced, cache_mode>>

\* lines 202-203: with self._playback_lock: self.temp_files.append(audio_file)
TtsRegister(w) ==
    /\ pc[w] = "register"
    /\ playback_lock = 0
    /\ temp_files' = Append(temp_files, CachedAudioPath(message[w]))
    /\ pc' = [pc EXCEPT ![w] = "enforce"]
    /\ UNCHANGED <<detVars, appVars>>
    /\ UNCHANGED <<use_tts, audio_files, playback_lock, tts_cache_limit, cache_files,
                   fs_clock, music, playing, message, current_size, file_list,
                   file_path, plays, did_synth, tried_failed, failed_logged,
                   last_evict, replaced, prev_done, last_done, cache_mode>>

\* _enforce_cache_limit, lines 153-162: the size test
EnforceStart(w) ==
    /\ pc[w] = "enforce"
    /\ IF CacheSize <= tts_cache_limit
       THEN /\ pc' = [pc EXCEPT ![w] = "lock_play"]
            /\ UNCHANGED current_size
       ELSE /\ pc' = [pc EXCEPT ![w] = "enf_list"]
            /\ current_size' = [current_size EXCEPT ![w] = CacheSize]
    /\ UNCHANGED <<detVars, appVars>>
    /\ UNCHANGED <<use_tts, audio_files, temp_files, playback_lock, tts_cache_limit,
                   cache_files, fs_clock, music, playing, message, file_list,
                   file_path, plays, did_synth, tried_failed, failed_logged,
                   last_evict, replaced, prev_done, last_done, cache_mode>>

\* lines 167-176: the listing, sorted by modification time
EnforceList(w) ==
    /\ pc[w] = "enf_list"
    /\ file_list' = [file_list EXCEPT ![w] = SortByMtime(cache_files)]
    /\ pc' = [pc EXCEPT ![w] = "enf_loop"]
    /\ UNCHANGED <<detVars, appVars>>
    /\ UNCHANGED <<use_tts, audio_files, temp_files, playback_lock, tts_cache_limit,
                   cache_files, fs_clock, music, playing, message, current_size,
                   file_path, plays, did_synth, tried_failed, failed_logged,
                   last_evict, replaced, prev_done, last_done, cache_mode>>

LoopContinuesSparingLast(size, limit, list) == size > limit /\ Len(list) > 1

\* line 179: while current_size_mb > cache_limit_mb and files
LoopContinues(size, limit, list) == size > limit /\ list # <<>>

\* lines 179-182: the loop test, files.pop(0) and os.path.getsize, which
\* raises (logged at line 187) when the file is gone
EnforceLoop(w) ==
    /\ pc[w] = "enf_loop"
    /\ IF LoopContinues(current_size[w], tts_cache_limit, file_list[w])
       THEN LET f == Head(file_list[w])
            IN /\ file_list' = [file_list EXCEPT ![w] = Tail(file_list[w])]
               /\ IF Exists(f)
                  THEN /\ file_path' = [file_path EXCEPT
                                          ![w] = [key |-> f, size |-> FileAt(f).size]]
                       /\ pc' = [pc EXCEPT ![w] = "enf_del"]
                  ELSE UNCHANGED <<file_path, pc>>
               /\ UNCHANGED current_size
       ELSE /\ pc' = [pc EXCEPT ![w] = "lock_play"]
            /\ file_list' = [file_list EXCEPT ![w] = <<>>]
            /\ current_size' = [current_size EXCEPT ![w] = 0]
            /\ UNCHANGED file_path
    /\ UNCHANGED <<detVars, appVars>>
    /\ UNCHANGED <<use_tts, audio_files, temp_files, playback_lock, tts_cache_limit,
                   cache_files, fs_clock, music, playing, message, plays, did_synth,
                   tried_failed, failed_logged, last_evict, replaced, prev_done,
                   last_done, cache_mode>>

\* what an eviction of file f by thread w leaves behind: a file the pass has
\* not failed to delete that is older by modification time, or by last access
EvictionRecord(w, f) ==
    [key |-> f.key,
     older_mtime_left |->
        \E g \in cache_files : g.key \notin tried_failed[w] /\ g.mtime < f.mtime,
     older_access_left |->
        \E g \in cache_files : g.key \notin tried_failed[w] /\ g.atime < f.atime]

\* lines 183-185: _delete_temp_file_with_retry returns True (the file is
\* removed, or was already gone) and the size is subtracted
EnforceDelete(w) ==
    /\ pc[w] = "enf_del"
    /\ LET k == file_path[w].key
       IN /\ cache_files' = {g \in cache_files : g.key # k}
          /\ failed_logged' = failed_logged \ {k}
          /\ last_evict' = IF Exists(k) THEN EvictionRecord(w, FileAt(k)) ELSE last_evict
    /\ current_size' = [current_size EXCEPT ![w] = current_size[w] - file_path[w].size]
    /\ file_path' = [file_path EXCEPT ![w] = NoFile]
    /\ pc' = [pc EXCEPT ![w] = "enf_loop"]
    /\ UNCHANGED <<detVars, appVars>>
    /\ UNCHANGED <<use_tts, audio_files, temp_files, playback_lock, tts_cache_limit,
                   fs_clock, music, playing, message, file_list, plays, did_synth,
                   tried_failed, replaced, prev_done, last_done, cache_mode>>

\* line 183: _delete_temp_file_with_retry fails on a file that is there (in
\* use, or another OS error): logged, the file stays, the size is kept
EnforceDeleteFails(w) ==
    /\ pc[w] = "enf_del"
    /\ cache_mode # "ten"
    /\ Exists(file_path[w].key)
    /\ failed_logged' = failed_logged \cup {file_path[w].key}
    /\ tried_failed' = [tried_failed EXCEPT ![w] = tried_failed[w] \cup {file_path[w].key}]
    /\ file_path' = [file_path EXCEPT ![w] = NoFile]
    /\ pc' = [pc EXCEPT ![w] = "enf_loop"]
    /\ UNCHANGED <<detVars, appVars>>
    /\ UNCHANGED <<use_tts, audio_files, temp_files, playback_lock, tts_cache_limit,
                   cache_files, fs_clock, music, playing, message, current_size,
                   file_list, plays, did_synth, last_evict, replaced, prev_done,
                   last_done, cache_mode>>

\* lines 206-208: the lock is taken, the file loaded and played; load or
\* play raises when the file is gone, the mixer has been shut down or the
\* device is not usable (logged at line 212, the lock released)
TtsLockPlay(w) ==
    /\ pc[w] = "lock_play"
    /\ playback_lock = 0
    /\ LET k == CachedAudioPath(message[w])
       IN IF Exists(k) /\ mixer_init /\ device_ok
          THEN /\ playback_lock' = w
               /\ music' = k
               /\ playing' = TRUE
               /\ replaced' = (replaced \/ playing)
               /\ cache_files' = {IF f.key = k THEN [f EXCEPT !.atime = fs_clock + 1] ELSE f
                                    : f \in cache_files}
               /\ fs_clock' = fs_clock + 1
               /\ pc' = [pc EXCEPT ![w] = "busy"]
               /\ UNCHANGED <<prev_done, last_done, message, did_synth, tried_failed>>
          ELSE /\ ThreadEnds(w)
               /\ Done(w, TRUE)
               /\ UNCHANGED <<playback_lock, music, playing, replaced, cache_files,
                              fs_clock>>
    /\ play_failed' = (play_failed \/ (Exists(CachedAudioPath(message[w]))
                                          /\ mixer_init /\ ~device_ok))
    /\ UNCHANGED <<detVars, lmVars, det_waiting, shutVars, loopVars, device_ok,
                   quitVars, cfgVars>>
    /\ UNCHANGED <<use_tts, audio_files, temp_files, tts_cache_limit,
                   current_size, file_list, file_path, plays,
                   failed_logged, last_evict, cache_mode>>

\* the stream runs to its end: get_busy() becomes false
MusicEnds ==
    /\ playing
    /\ playing' = FALSE
    /\ UNCHANGED <<detVars, appVars>>
    /\ UNCHANGED <<use_tts, audio_files, temp_files, playback_lock, tts_cache_limit,
                   cache_files, fs_clock, music, pc, message, current_size,
                   file_list, file_path, plays, did_synth, tried_failed,
                   failed_logged, last_evict, replaced, prev_done, last_done,
                   cache_mode>>

\* lines 209-210: the wait loop ends, the with block releases the lock
TtsPlayDone(w) ==
    /\ pc[w] = "busy"
    /\ ~playing
    /\ playback_lock' = 0
    /\ ThreadEnds(w)
    /\ Done(w, TRUE)
    /\ UNCHANGED <<detVars, appVars>>
    /\ UNCHANGED <<use_tts, audio_files, temp_files, tts_cache_limit, cache_files,
                   fs_clock, music, playing, current_size, file_list,
                   file_path, plays, failed_logged,
                   last_evict, replaced, cache_mode>>

\* play_message, stock mode, line 227: the lock is held by a playback, the
\* calling thread blocks in "with self._playback_lock"
PlayMessageStockWaits ==
    /\ ~det_waiting
    /\ ~ShutdownBegun
    /\ ~use_tts
    /\ audio_files # {}
    /\ plays < PlaysBound
    /\ playback_lock # 0
    /\ det_waiting' = TRUE
    /\ plays' = plays + 1
    /\ UNCHANGED <<detVars, lmVars, shutVars, loopVars, devVars, quitVars, cfgVars>>
    /\ UNCHANGED <<use_tts, audio_files, temp_files, playback_lock, tts_cache_limit,
                   cache_files, fs_clock, music, playing, pc, message, current_size,
                   file_list, file_path, did_synth, tried_failed, failed_logged,
                   last_evict, replaced, prev_done, last_done, cache_mode>>

\* lines 227-229: the lock is released to the blocked caller, which loads,
\* plays and returns; random.choice raises on a pool that has been emptied
\* meanwhile, load on a mixer that has been shut down (caught at line 230)
PlayMessageStockAcquires ==
    /\ det_waiting
    /\ playback_lock = 0
    /\ det_waiting' = FALSE
    /\ IF audio_files # {} /\ mixer_init /\ device_ok
       THEN /\ \E f \in audio_files : music' = f
            /\ playing' = TRUE
            /\ replaced' = (replaced \/ playing)
       ELSE UNCHANGED <<music, playing, replaced>>
    /\ play_failed' = (play_failed \/ (audio_files # {} /\ mixer_init /\ ~device_ok))
    /\ UNCHANGED <<detVars, lmVars, shutVars, loopVars, device_ok, quitVars, cfgVars>>
    /\ UNCHANGED <<use_tts, audio_files, temp_files, playback_lock, tts_cache_limit,
                   cache_files, fs_clock, pc, message, current_size, file_list,
                   file_path, plays, did_synth, tried_failed, failed_logged,
                   last_evict, prev_done, last_done, cache_mode>>

\* the while loop of _enforce_cache_limit (lines 179-187) run to its end on
\* the files of list; the deletion of a file of locked fails and is logged
RECURSIVE EvictLoop(_, _, _, _, _)
EvictLoop(files, logged, size, list, locked) ==
    IF LoopContinues(size, tts_cache_limit, list)
    THEN LET k == Head(list)
             present == {f \in files : f.key = k}
         IN IF present = {}
            THEN EvictLoop(files, logged, size, Tail(list), locked)
            ELSE IF k \in locked
            THEN EvictLoop(files, logged \cup {k}, size, Tail(list), locked)
            ELSE EvictLoop(files \ present, logged \ {k}, size - SumSizes(present),
                           Tail(list), locked)
    ELSE [files |-> files, logged |-> logged]

\* a whole call of _enforce_cache_limit by a thread other than the playback
\* threads (the UI thread of set_mode, the thread of cleanup)
EnforceCacheLimit(locked) ==
    IF CacheSize <= tts_cache_limit
    THEN [files |-> cache_files, logged |-> failed_logged]
    ELSE EvictLoop(cache_files, failed_logged, CacheSize, SortByMtime(cache_files),
                   locked)

\* a file of the stock audio folder that is neither .mp3 nor .wav
OtherFile == -3

\* line 96: file.lower().endswith(('.mp3', '.wav'))
IsAudio(f) == f \in StockFiles

\* the stock audio folder when os.listdir reads it: it cannot be listed
\* (missing, not permitted), or it holds some files
Readable(files) == [readable |-> TRUE, files |-> files]
Unreadable == [readable |-> FALSE, files |-> {}]
Folders == {Unreadable} \cup {Readable(files) : files \in SUBSET (StockFiles \cup {OtherFile})}

\* a loader that keeps the mode it finds
LoadStockAudioKeepsMode(use, folder) ==
    [use_tts |-> use,
     audio_files |-> {f \in folder.files : IsAudio(f)}]

\* _load_stock_audio (lines 92-108) with self.use_tts = use: the pool and
\* the mode it leaves; an empty pool in stock mode and a listing that
\* raises both set use_tts
LoadStockAudio(use, folder) ==
    IF ~folder.readable
    THEN [use_tts |-> TRUE, audio_files |-> {}]
    ELSE LET pool == {f \in folder.files : IsAudio(f)}
         IN [use_tts |-> use \/ pool = {}, audio_files |-> pool]

\* __init__ (lines 27-49) called with use_tts = use; tts_ok: gTTS(...) of
\* line 44 does not raise
Constructor(use, folder, tts_ok) ==
    IF use /\ tts_ok
    THEN [use_tts |-> TRUE, audio_files |-> {}]
    ELSE LoadStockAudio(FALSE, folder)

\* set_mode(use), lines 51-58, called by the UI thread; folder is what
\* os.listdir(stock_audio_folder) finds when _load_stock_audio reads it
SetMode(use, folder, locked) ==
    /\ ~ShutdownBegun
    /\ IF use
       THEN /\ use_tts' = TRUE
            /\ cache_files' = EnforceCacheLimit(locked).files
            /\ failed_logged' = EnforceCacheLimit(locked).logged
            /\ UNCHANGED audio_files
       ELSE /\ audio_files' = LoadStockAudio(FALSE, folder).audio_files
            /\ use_tts' = LoadStockAudio(FALSE, folder).use_tts
            /\ UNCHANGED <<cache_files, failed_logged>>
    /\ UNCHANGED <<detVars, appVars>>
    /\ UNCHANGED <<temp_files, playback_lock, tts_cache_limit, fs_clock, music,
                   playing, pc, message, current_size, file_list, file_path, plays,
                   did_synth, tried_failed, last_evict, replaced, prev_done,
                   last_done, cache_mode>>

\* reload_audio_files(), lines 110-112, called by the UI after files were
\* added to the stock audio folder
ReloadAudioFiles(folder) ==
    /\ ~ShutdownBegun
    /\ audio_files' = LoadStockAudio(use_tts, folder).audio_files
    /\ use_tts' = LoadStockAudio(use_tts, folder).use_tts
    /\ UNCHANGED <<detVars, appVars>>
    /\ UNCHANGED <<temp_files, playback_lock, tts_cache_limit, cache_files, fs_clock,
                   music, playing, pc, message, current_size, file_list, file_path,
                   plays, did_synth, tried_failed, failed_logged, last_evict,
                   replaced, prev_done, last_done, cache_mode>>

-----------------------------------------------------------------------------
(* AudioManager.cleanup and _delete_temp_file_with_retry *)

\* _delete_temp_file_with_retry(temp_file, retries=5, ...)
Retries == 5

\* the calls of cleanup: the quit handler of the UI, then main's finally
CleanupCalls == {1, 2}

Range(seq) == {seq[i] : i \in DOMAIN seq}

\* what the steps of cleanup leave alone
CleanupFrame ==
    /\ UNCHANGED <<detVars, lmVars, det_waiting, loopVars, windows, devVars,
                   quitVars, cfgVars>>
    /\ UNCHANGED <<use_tts, audio_files, playback_lock, tts_cache_limit, fs_clock,
                   pc, message, current_size, file_list, file_path, plays,
                   did_synth, tried_failed, last_evict, replaced, prev_done,
                   last_done, cache_mode>>

\* cleanup, line 236: the lock is held by a playback thread, which keeps it
\* until its stream has ended (lines 206-210): the caller of cleanup blocks
\* in "with self._playback_lock"
CleanupWaits ==
    /\ cl_pc \in {"idle", "done"}
    /\ cleanups + 1 \in CleanupCalls
    /\ playback_lock # 0
    /\ cl_pc' = "wait"
    /\ UNCHANGED <<temp_files, cache_files, failed_logged, playing, music,
                   mixer_init, cleanups, cl_todo, cl_attempt, failed_deletions,
                   del_result, cl_registered, cl_attempted, cl_deleted,
                   cl_reported>>
    /\ CleanupFrame

\* cleanup, lines 235-240: under the lock, music.stop() and mixer.quit();
\* music.stop() raises when the mixer is not initialized, which line 254
\* logs, and cleanup returns
CleanupBegin ==
    /\ cl_pc \in {"idle", "done", "wait"}
    /\ cleanups + 1 \in CleanupCalls
    /\ playback_lock = 0
    /\ cl_attempted' = {}
    /\ cl_deleted' = {}
    /\ cl_reported' = <<>>
    /\ del_result' = "none"
    /\ IF mixer_init
       THEN /\ playing' = FALSE
            /\ music' = 0
            /\ mixer_init' = FALSE
            /\ cl_pc' = "sleep"
            /\ cl_registered' = {}
            /\ UNCHANGED cleanups
       ELSE /\ cl_pc' = "done"
            /\ cleanups' = cleanups + 1
            /\ cl_registered' = Range(temp_files)
            /\ UNCHANGED <<playing, music, mixer_init>>
    /\ UNCHANGED <<temp_files, cache_files, failed_logged, cl_todo, cl_attempt,
                   failed_deletions>>
    /\ CleanupFrame

\* lines 242-243: failed_deletions = [], the copy temp_files[:]
CleanupCopy ==
    /\ cl_pc = "sleep"
    /\ cl_todo' = temp_files
    /\ cl_registered' = Range(temp_files)
    /\ failed_deletions' = <<>>
    /\ cl_attempt' = 0
    /\ cl_pc' = "loop"
    /\ UNCHANGED <<temp_files, cache_files, failed_logged, playing, music,
                   mixer_init, cleanups, del_result, cl_attempted, cl_deleted,
                   cl_reported>>
    /\ CleanupFrame

\* line 116: for attempt in range(retries) has another round
RetriesLeft(attempt) == attempt + 1 < Retries

\* lines 118-122: the file is removed, or is not there: True
CleanupDeleteReturnsTrue ==
    /\ cl_pc = "loop" /\ cl_todo # <<>>
    /\ LET k == Head(cl_todo)
       IN /\ cache_files' = {f \in cache_files : f.key # k}
          /\ failed_logged' = failed_logged \ {k}
          /\ cl_deleted' = IF Exists(k) THEN cl_deleted \cup {k} ELSE cl_deleted
          /\ cl_attempted' = cl_attempted \cup {k}
    /\ cl_todo' = Tail(cl_todo)
    /\ cl_attempt' = 0
    /\ del_result' = "true"
    /\ UNCHANGED <<temp_files, playing, music, mixer_init, cl_pc, cleanups,
                   failed_deletions, cl_registered, cl_reported>>
    /\ CleanupFrame

\* the call on the head of cl_todo returns False: cleanup appends the file
\* to failed_deletions (lines 244-245)
DeleteReturnsFalse ==
    /\ failed_deletions' = Append(failed_deletions, Head(cl_todo))
    /\ failed_logged' = failed_logged \cup {Head(cl_todo)}
    /\ cl_todo' = Tail(cl_todo)
    /\ cl_attempt' = 0
    /\ del_result' = "false"

\* lines 123-126, 130-131: os.remove raises OSError with winerror 32 (the
\* file is in use): another attempt after the delay, False after the last
CleanupDeleteInUse ==
    /\ cl_pc = "loop" /\ cl_todo # <<>>
    /\ windows
    /\ Exists(Head(cl_todo))
    /\ cl_attempted' = cl_attempted \cup {Head(cl_todo)}
    /\ IF RetriesLeft(cl_attempt)
       THEN /\ cl_attempt' = cl_attempt + 1
            /\ UNCHANGED <<failed_deletions, failed_logged, cl_todo, del_result>>
       ELSE DeleteReturnsFalse
    /\ UNCHANGED <<temp_files, cache_files, playing, music, mixer_init, cl_pc,
                   cleanups, cl_registered, cl_deleted, cl_reported>>
    /\ CleanupFrame

\* lines 127-129: os.remove raises another OSError: logged, False
CleanupDeleteError ==
    /\ cl_pc = "loop" /\ cl_todo # <<>>
    /\ windows
    /\ Exists(Head(cl_todo))
    /\ cl_attempted' = cl_attempted \cup {Head(cl_todo)}
    /\ DeleteReturnsFalse
    /\ UNCHANGED <<temp_files, cache_files, playing, music, mixer_init, cl_pc,
                   cleanups, cl_registered, cl_deleted, cl_reported>>
    /\ CleanupFrame

\* line 124 where OSError has no attribute winerror: os.remove raises
\* OSError, e.winerror raises AttributeError out of the call; line 254 of
\* cleanup logs it and cleanup returns
CleanupDeleteRaises ==
    /\ cl_pc = "loop" /\ cl_todo # <<>>
    /\ ~windows
    /\ Exists(Head(cl_todo))
    /\ cl_attempted' = cl_attempted \cup {Head(cl_todo)}
    /\ del_result' = "raised"
    /\ cl_todo' = <<>>
    /\ cl_attempt' = 0
    /\ failed_deletions' = <<>>
    /\ cl_pc' = "done"
    /\ cleanups' = cleanups + 1
    /\ UNCHANGED <<temp_files, cache_files, failed_logged, playing, music,
                   mixer_init, cl_registered, cl_deleted, cl_reported>>
    /\ CleanupFrame

\* lines 247-253: the report, temp_files = [], _enforce_cache_limit()
CleanupFinish(locked) ==
    /\ cl_pc = "loop" /\ cl_todo = <<>>
    /\ cl_reported' = failed_deletions
    /\ failed_deletions' = <<>>
    /\ temp_files' = <<>>
    /\ cache_files' = EnforceCacheLimit(locked).files
    /\ failed_logged' = EnforceCacheLimit(locked).logged
    /\ cl_pc' = "done"
    /\ cleanups' = cleanups + 1
    /\ UNCHANGED <<playing, music, mixer_init, cl_todo, cl_attempt, del_result,
                   cl_registered, cl_attempted, cl_deleted>>
    /\ CleanupFrame

Cleanup ==
    \/ CleanupWaits
    \/ CleanupBegin
    \/ CleanupCopy
    \/ CleanupDeleteReturnsTrue
    \/ CleanupDeleteInUse
    \/ CleanupDeleteError
    \/ CleanupDeleteRaises
    \/ \E locked \in SUBSET {f.key : f \in cache_files} : CleanupFinish(locked)

-----------------------------------------------------------------------------
(* ConfigManager.load_config / validate_config and UIManager._save_settings *)
(*                                                                         *)
(* A value of config.json is absent, a number, or something float() and    *)
(* int() reject.  Numbers of the detection section are counted in          *)
(* twentieths (of a second: ticks; of a pixel), the cache limit in MB.     *)

\* DEFAULT_CONFIG as the module defines it (lines 23-36); its audio section
\* has no tts_cache_limit (NoKey)
NoKey == -1
FactoryConfig ==
    [trigger_cooldown |-> DefaultTriggerCooldown,
     required_duration |-> DefaultRequiredDuration,
     max_head_distance |-> DefaultMaxHeadDistance,
     full_head_detection |-> FALSE,
     tts_cache_limit |-> NoKey]

Absent == [kind |-> "absent", v |-> 0]
Bad == [kind |-> "bad", v |-> 0]
Num(v) == [kind |-> "num", v |-> v]

\* the numbers tried: -1, 0, 0.5, 2.5 and 12.5
RawNumbers == {-20, 0, 10, 50, 250}
RawValues == {Absent, Bad} \cup {Num(v) : v \in RawNumbers}
\* audio.tts_cache_limit as written in the file (MB)
RawLimits == {Absent} \cup {Num(v) : v \in {-1, 0, 10, 50}}

\* the files load_config can find
RawConfigs ==
    [trigger_cooldown : RawValues, required_duration : RawValues,
     max_head_distance : RawValues, tts_cache_limit : RawLimits]

Max2(a, b) == IF a >= b THEN a ELSE b

\* detection.setdefault(key, DEFAULT_CONFIG['detection'][key]), lines 50-53
SetDefault(raw, default) == IF raw.kind = "absent" THEN Num(default) ELSE raw

\* line 61: max(0, int(detection['trigger_cooldown'])), seconds to ticks
ValidCooldown(v) == Max2(0, Trunc(v, 20)) * 20

\* line 62: max(0.0, float(detection['required_duration']))
ValidDuration(v) == Max2(0, v)

\* line 64: max(10, int(detection['max_head_distance']))
ValidDistance(v) == Max2(10, Trunc(v, 20))

\* validate_config, lines 47-71 (the detection section): a value that
\* float() or int() rejects reverts the whole section to the defaults
ValidateDetection(raw) ==
    LET c == SetDefault(raw.trigger_cooldown, DefaultTriggerCooldown)
        r == SetDefault(raw.required_duration, DefaultRequiredDuration)
        m == SetDefault(raw.max_head_distance, DefaultMaxHeadDistance * 20)
    IN IF "bad" \in {c.kind, r.kind, m.kind}
       THEN [trigger_cooldown |-> DefaultTriggerCooldown,
             required_duration |-> DefaultRequiredDuration,
             max_head_distance |-> DefaultMaxHeadDistance]
       ELSE [trigger_cooldown |-> ValidCooldown(c.v),
             required_duration |-> ValidDuration(r.v),
             max_head_distance |-> ValidDistance(m.v)]

\* validate_config, lines 74-84 (the audio section) leaves tts_cache_limit
\* as the file has it; config.audio.get('tts_cache_limit', 50.0) reads it
CacheLimitOf(raw) ==
    IF raw.tts_cache_limit.kind = "absent" THEN DefaultCacheLimit
    ELSE raw.tts_cache_limit.v

\* what the steps that change the configuration leave alone
ConfigFrame ==
    /\ UNCHANGED <<state, hand_near_head_time, hand_near_head_duration,
                   last_triggered, last_hand_near_head, now, frame_near, fired,
                   prev_triggered, trigger_count, run_start, pulls_in_run,
                   entered_detecting, last_near_frame, scenario>>
    /\ UNCHANGED <<use_tts, audio_files, temp_files, playback_lock, cache_files,
                   fs_clock, music, playing, pc, message, current_size, file_list,
                   file_path, plays, did_synth, tried_failed, failed_logged,
                   last_evict, replaced, prev_done, last_done, cache_mode>>
    /\ UNCHANGED <<scene_hands, hand_results, face_results, contact_points,
                   above_eye_points>>
    /\ UNCHANGED <<othVars, quitVars>>

\* load_config (lines 100-108) on a config.json that holds raw
LoadConfig(raw) ==
    /\ trigger_cooldown' = ValidateDetection(raw).trigger_cooldown
    /\ required_duration' = ValidateDetection(raw).required_duration
    /\ max_head_distance' = ValidateDetection(raw).max_head_distance
    /\ tts_cache_limit' = CacheLimitOf(raw)
    /\ UNCHANGED full_head_detection
    /\ default_config' = FactoryConfig
    /\ config_shared' = FALSE
    /\ config_rebound' = FALSE
    /\ ConfigFrame

\* load_config when config.json is missing or is not JSON: line 108,
\* Config(**self.DEFAULT_CONFIG), whose sections are the dicts of
\* DEFAULT_CONFIG themselves
LoadConfigFails ==
    /\ trigger_cooldown' = DefaultTriggerCooldown
    /\ required_duration' = DefaultRequiredDuration
    /\ max_head_distance' = DefaultMaxHeadDistance
    /\ tts_cache_limit' = DefaultCacheLimit
    /\ full_head_detection' = FALSE
    /\ default_config' = FactoryConfig
    /\ config_shared' = TRUE
    /\ config_rebound' = FALSE
    /\ ConfigFrame

\* what the sliders of the settings tab can hold: cooldown 0..10 s (whole
\* seconds), duration 0..5 s, distance 10..200 px, cache limit 10..1000 MB
CooldownScale == {0, DefaultTriggerCooldown, 200}
DurationScale == {0, DefaultRequiredDuration, 100}
DistanceScale == {10, DefaultMaxHeadDistance, 200}
CacheLimitScale == {10, DefaultCacheLimit, 1000}

\* _save_settings (lines 590-600): temp_settings holds the value of a slider
\* that was moved, else the value the configuration had; the cache folder is
\* empty here, so the _enforce_cache_limit() of line 599 deletes nothing.
\* The writes go to the Config the UI was built with: the audio manager
\* reads the same object, the detector does until reset_config gives it
\* another one, and DEFAULT_CONFIG changes with it when the dicts are shared
SaveSettings(c, r, m, l, full) ==
    /\ IF config_rebound
       THEN UNCHANGED <<trigger_cooldown, required_duration, max_head_distance,
                        full_head_detection>>
       ELSE /\ trigger_cooldown' = c
            /\ required_duration' = r
            /\ max_head_distance' = m
            /\ full_head_detection' = full
    /\ tts_cache_limit' = l
    /\ default_config' =
          IF config_shared
          THEN [trigger_cooldown |-> c, required_duration |-> r,
                max_head_distance |-> m, full_head_detection |-> full,
                tts_cache_limit |-> l]
          ELSE default_config
    /\ UNCHANGED <<config_shared, config_rebound>>
    /\ ConfigFrame

\* reset_config (lines 70-73 of hair_pulling_detector.py): a new
\* ConfigManager, reset_to_default (Config(**DEFAULT_CONFIG), saved to
\* config.json) and self.config = load_config(), which reads the file back;
\* the UI and the audio manager keep the Config they were built with
ResetConfig ==
    /\ trigger_cooldown' = default_config.trigger_cooldown
    /\ required_duration' = default_config.required_duration
    /\ max_head_distance' = default_config.max_head_distance
    /\ full_head_detection' = default_config.full_head_detection
    /\ config_rebound' = TRUE
    /\ UNCHANGED <<tts_cache_limit, default_config, config_shared>>
    /\ ConfigFrame

\* AudioManager.__init__ with an empty cache folder
InitAudio ==
    /\ temp_files = <<>>
    /\ playback_lock = 0
    /\ cache_files = {}
    /\ fs_clock = 0
    /\ music = 0
    /\ playing = FALSE
    /\ pc = [w \in Workers |-> "idle"]
    /\ message = [w \in Workers |-> 0]
    /\ current_size = [w \in Workers |-> 0]
    /\ file_list = [w \in Workers |-> <<>>]
    /\ file_path = [w \in Workers |-> NoFile]
    /\ plays = 0
    /\ did_synth = [w \in Workers |-> FALSE]
    /\ tried_failed = [w \in Workers |-> {}]
    /\ failed_logged = {}
    /\ last_evict = NoEvict
    /\ replaced = FALSE
    /\ prev_done = NoCall
    /\ last_done = NoCall
    /\ det_waiting = FALSE
    /\ mixer_init = TRUE
    /\ cl_pc = "idle"
    /\ cleanups = 0
    /\ cl_todo = <<>>
    /\ cl_attempt = 0
    /\ failed_deletions = <<>>
    /\ del_result = "none"
    /\ cl_registered = {}
    /\ cl_attempted = {}
    /\ cl_deleted = {}
    /\ cl_reported = <<>>
    /\ device_ok = TRUE
    /\ play_failed = FALSE

\* the audio manager as the detector's runs leave it: TTS mode, no calls
InitAudioQuiet ==
    /\ InitAudio
    /\ cache_mode = "free"
    /\ use_tts = TRUE
    /\ audio_files = {}
    /\ tts_cache_limit = DefaultCacheLimit
    /\ windows = TRUE

InitDetector ==
    /\ state = "IDLE"
    /\ hand_near_head_time = 0
    /\ hand_near_head_duration = 0
    /\ last_triggered = 0
    /\ last_hand_near_head = 0
    /\ now = StartTime
    /\ frame_near = FALSE
    /\ fired = FALSE
    /\ prev_triggered = 0
    /\ trigger_count = 0
    /\ run_start = -1
    /\ pulls_in_run = 0
    /\ entered_detecting = 0
    /\ last_near_frame = 0
    /\ loop_alive = TRUE
    /\ notify_failed = "none"
    /\ running = TRUE
    /\ det_pc = "loop"
    /\ hd_pc = "idle"
    /\ default_config = FactoryConfig
    /\ config_shared = FALSE
    /\ config_rebound = FALSE

\* no frame processed yet, the default proximity settings
InitNoLandmarks ==
    /\ scene_hands = <<>>
    /\ hand_results = NoHands
    /\ face_results = NoFaceResult
    /\ full_head_detection = FALSE
    /\ max_head_distance = DefaultMaxHeadDistance
    /\ contact_points = <<>>
    /\ above_eye_points = <<>>

Init ==
    /\ InitDetector
    /\ InitNoLandmarks
    /\ InitAudioQuiet
    /\ scenario = FALSE
    /\ required_duration \in Durations
    /\ trigger_cooldown \in Cooldowns

Next == Frame

Spec == Init /\ [][Next]_vars

\* a frame whose proximity signal is near = true
FrameNear ==
    /\ ~scenario
    /\ \E dt \in 1..MaxDt, lag \in 0..1 : FrameStep(dt, TRUE, lag)
    /\ UNCHANGED <<lmVars, quitVars, cfgVars>>

NextNear == FrameNear

\* the hand stays near: frames keep arriving, every one with near = true
SpecNear == Init /\ [][NextNear]_vars /\ WF_vars(FrameNear)

\* a frame of the concrete scenario
FrameScenario ==
    /\ scenario
    /\ \E dt \in ScenarioDts, lag \in 0..1 :
          FrameStep(dt, ScenarioNear(now + dt - StartTime), lag)
    /\ UNCHANGED <<lmVars, quitVars, cfgVars>>

InitScenario ==
    /\ InitDetector
    /\ InitNoLandmarks
    /\ InitAudioQuiet
    /\ scenario = TRUE
    /\ required_duration = DefaultRequiredDuration
    /\ trigger_cooldown = DefaultTriggerCooldown

NextScenario == FrameScenario

SpecScenario == InitScenario /\ [][NextScenario]_vars

\* the detector in front of a scene: frames MaxDt ticks apart
InitProximity ==
    /\ InitDetector
    /\ InitAudioQuiet
    /\ scenario = FALSE
    /\ required_duration = 2
    /\ trigger_cooldown = 0
    /\ scene_hands \in Scenes
    /\ hand_results = NoHands
    /\ face_results = NoFaceResult
    /\ full_head_detection \in BOOLEAN
    /\ max_head_distance \in MaxHeadDistances
    /\ contact_points = <<>>
    /\ above_eye_points = <<>>

NextProximity == FrameLandmarks

SpecProximity == InitProximity /\ [][NextProximity]_vars

\* the detection loop when a step of the trigger notification can raise
NextLoop ==
    \/ Frame
    \/ FrameRaises

SpecLoop == Init /\ [][NextLoop]_vars

-----------------------------------------------------------------------------
(* The audio manager under play_message calls *)

\* the detector as the audio manager's runs leave it
InitDetectorQuiet ==
    /\ InitDetector
    /\ InitNoLandmarks
    /\ scenario = FALSE
    /\ required_duration = DefaultRequiredDuration
    /\ trigger_cooldown = DefaultTriggerCooldown

\* the configuration as config.json and the settings tab make it
NextConfig ==
    \/ \E raw \in RawConfigs : LoadConfig(raw)
    \/ LoadConfigFails
    \/ \E c \in CooldownScale \cup {trigger_cooldown},
          r \in DurationScale \cup {required_duration},
          m \in DistanceScale \cup {max_head_distance},
          l \in CacheLimitScale \cup {tts_cache_limit},
          full \in BOOLEAN : SaveSettings(c, r, m, l, full)

\* ConfigManager() on a config.json that holds the default values
InitConfig ==
    /\ InitDetectorQuiet
    /\ InitAudioQuiet

SpecConfig == InitConfig /\ [][NextConfig]_vars

\* one run of the application: config.json holds the default values or is
\* missing, then the settings tab and its reset button
NextReset ==
    \/ LoadConfigFails
    \/ \E c \in CooldownScale \cup {trigger_cooldown},
          r \in DurationScale \cup {required_duration},
          m \in DistanceScale \cup {max_head_distance},
          l \in CacheLimitScale \cup {tts_cache_limit},
          full \in BOOLEAN : SaveSettings(c, r, m, l, full)
    \/ ResetConfig

SpecReset == InitConfig /\ [][NextReset]_vars

\* the constructor, lines 40-49: TTS mode, or stock mode with a loaded pool
InitCache ==
    /\ InitDetectorQuiet
    /\ InitAudio
    /\ cache_mode = "free"
    /\ windows = TRUE
    /\ use_tts \in BOOLEAN
    /\ audio_files = IF use_tts THEN {} ELSE StockFiles
    /\ tts_cache_limit \in Limits

TtsThread(w) ==
    \/ TtsStart(w)
    \/ TtsSynth(w)
    \/ TtsRegister(w)
    \/ EnforceStart(w)
    \/ EnforceList(w)
    \/ EnforceLoop(w)
    \/ EnforceDelete(w)
    \/ TtsLockPlay(w)
    \/ TtsPlayDone(w)

NextCache ==
    \/ \E w \in Workers, m \in Phrases : PlayMessageTts(w, m)
    \/ PlayMessageStock
    \/ \E w \in Workers : TtsThread(w)
    \/ \E w \in Workers : TtsSynthFails(w)
    \/ \E w \in Workers : EnforceDeleteFails(w)
    \/ MusicEnds

SpecCache == InitCache /\ [][NextCache]_vars

\* the audio device becomes unusable (busy, unplugged): from then on load and
\* play raise pygame.error until the mixer is shut down and initialized
\* again; pygame.mixer.init() is called at line 38 of __init__ only
DeviceFails ==
    /\ device_ok
    /\ device_ok' = FALSE
    /\ UNCHANGED <<detVars, audVars, lmVars, det_waiting, shutVars, loopVars,
                   play_failed, quitVars, cfgVars>>

\* play_message calls on a device that can fail
NextDevice ==
    \/ NextCache
    \/ DeviceFails

SpecDevice == InitCache /\ [][NextDevice]_vars

\* TTS mode with a service, a file system and a device that never fail
InitPlayback ==
    /\ InitDetectorQuiet
    /\ InitAudio
    /\ cache_mode = "free"
    /\ windows = TRUE
    /\ use_tts = TRUE
    /\ audio_files = {}
    /\ tts_cache_limit \in Limits

NextPlayback ==
    \/ \E w \in Workers, m \in Phrases : PlayMessageTts(w, m)
    \/ \E w \in Workers : TtsThread(w)
    \/ MusicEnds

\* every started thread keeps running, a thread waiting for the lock gets
\* it when it is released again and again, and every stream ends
FairPlayback ==
    /\ \A w \in Workers : WF_vars(TtsThread(w))
    /\ \A w \in Workers : SF_vars(TtsRegister(w))
    /\ \A w \in Workers : SF_vars(TtsLockPlay(w))
    /\ WF_vars(MusicEnds)

SpecPlayback == InitPlayback /\ [][NextPlayback]_vars /\ FairPlayback

\* _play_tts_message called again only after the call before it has returned
InitCacheSeq ==
    /\ InitDetectorQuiet
    /\ InitAudio
    /\ cache_mode = "seq"
    /\ windows = TRUE
    /\ use_tts = TRUE
    /\ audio_files = {}
    /\ tts_cache_limit \in Limits

NextCacheSeq ==
    \/ \E w \in Workers, m \in Phrases : PlayMessageTts(w, m)
    \/ \E w \in Workers : TtsThread(w)
    \/ \E w \in Workers : TtsSynthFails(w)
    \/ \E w \in Workers : EnforceDeleteFails(w)
    \/ MusicEnds

SpecCacheSeq == InitCacheSeq /\ [][NextCacheSeq]_vars

\* the concrete scenario: a 10 MB limit and ten 2 MB messages, synthesized in
\* order, every deletion succeeding
InitCacheTen ==
    /\ InitDetectorQuiet
    /\ InitAudio
    /\ cache_mode = "ten"
    /\ windows = TRUE
    /\ use_tts = TRUE
    /\ audio_files = {}
    /\ tts_cache_limit = 10

NextCacheTen ==
    \/ \E w \in Workers, m \in Phrases : PlayMessageTts(w, m)
    \/ \E w \in Workers : TtsThread(w)
    \/ MusicEnds

SpecCacheTen == InitCacheTen /\ [][NextCacheTen]_vars

\* the audio manager while the UI switches between TTS and stock audio
NextModes ==
    \/ \E w \in Workers, m \in Phrases : PlayMessageTts(w, m)
    \/ PlayMessageStock
    \/ PlayMessageStockWaits
    \/ PlayMessageStockAcquires
    \/ \E use \in BOOLEAN, listing \in {{}, StockFiles},
          locked \in SUBSET {f.key : f \in cache_files} :
             SetMode(use, Readable(listing), locked)
    \/ \E w \in Workers : TtsThread(w)
    \/ \E w \in Workers : TtsSynthFails(w)
    \/ \E w \in Workers : EnforceDeleteFails(w)
    \/ MusicEnds

SpecModes == InitCache /\ [][NextModes]_vars

\* the audio manager as the constructor leaves it, for every mode asked
\* for and every stock audio folder
InitStock ==
    /\ InitDetectorQuiet
    /\ InitAudio
    /\ cache_mode = "seq"
    /\ windows = TRUE
    /\ tts_cache_limit = DefaultCacheLimit
    /\ \E use \in BOOLEAN, folder \in Folders, tts_ok \in BOOLEAN :
          /\ use_tts = Constructor(use, folder, tts_ok).use_tts
          /\ audio_files = Constructor(use, folder, tts_ok).audio_files

\* the mode and the pool under the calls of the UI, and stock playback
NextStock ==
    \/ \E use \in BOOLEAN, folder \in Folders : SetMode(use, folder, {})
    \/ \E folder \in Folders : ReloadAudioFiles(folder)
    \/ PlayMessageStock
    \/ MusicEnds

SpecStock == InitStock /\ [][NextStock]_vars

\* a session in TTS mode that ends with the calls of cleanup
InitCleanup ==
    /\ InitDetectorQuiet
    /\ InitAudio
    /\ cache_mode = "free"
    /\ windows \in BOOLEAN
    /\ use_tts = TRUE
    /\ audio_files = {}
    /\ tts_cache_limit \in Limits

NextCleanup ==
    \/ \E w \in Workers, m \in Phrases : PlayMessageTts(w, m)
    \/ \E w \in Workers : TtsThread(w)
    \/ \E w \in Workers : TtsSynthFails(w)
    \/ \E w \in Workers : EnforceDeleteFails(w)
    \/ MusicEnds
    \/ Cleanup

SpecCleanup == InitCleanup /\ [][NextCleanup]_vars

-----------------------------------------------------------------------------
(* Shutdown: HairPullingDetector.cleanup against _detection_loop *)

\* what a step of _detection_loop outside the state machine leaves alone
LoopFrame ==
    UNCHANGED <<detVars, audVars, lmVars, det_waiting, shutVars, notify_failed,
                devVars, running, hd_pc, cfgVars>>

\* lines 263-264: while self.running (iterations are counted up to the
\* time horizon)
LoopEnter ==
    /\ det_pc = "loop"
    /\ running
    /\ now < StartTime + MaxTime
    /\ det_pc' = "read"
    /\ UNCHANGED loop_alive
    /\ LoopFrame

\* lines 263-266, 292-294: the flag is found cleared, the loop ends, finally
\* closes the camera
LoopExit ==
    /\ det_pc = "loop"
    /\ ~running
    /\ det_pc' = "done"
    /\ loop_alive' = FALSE
    /\ LoopFrame

\* lines 267-272: read_frame; without a frame (the camera is closed by line
\* 308 of cleanup) the iteration is abandoned
ReadFrame ==
    /\ det_pc = "read"
    /\ \E success \in BOOLEAN :
          /\ success => hd_pc = "idle"
          /\ det_pc' = IF success THEN "guard" ELSE "loop"
    /\ UNCHANGED loop_alive
    /\ LoopFrame

\* line 278: if self.running, the last test of the flag in the iteration
LoopGuard ==
    /\ det_pc = "guard"
    /\ det_pc' = IF running THEN "process" ELSE "loop"
    /\ UNCHANGED loop_alive
    /\ LoopFrame

\* gesture_detector.cleanup (lines 159-166) has closed the models and set
\* self.hands and self.face_mesh to None
ModelsClosed == hd_pc = "returned"

\* line 279: process_frame is called; on closed models self.hands.process
\* raises, line 289 catches it outside the while loop
ProcessFrame ==
    /\ det_pc = "process"
    /\ IF ModelsClosed
       THEN det_pc' = "done" /\ loop_alive' = FALSE
       ELSE det_pc' = "update" /\ UNCHANGED loop_alive
    /\ LoopFrame

\* line 279: the models are closed while process_frame is using them, and
\* it raises
ProcessFrameRaises ==
    /\ det_pc = "update"
    /\ ModelsClosed
    /\ det_pc' = "done"
    /\ loop_alive' = FALSE
    /\ LoopFrame

\* lines 279-281: process_frame returns its results, _check_for_pulling and
\* _trigger_alert run
UpdateStep ==
    /\ det_pc = "update"
    /\ \E dt \in 1..MaxDt, near \in BOOLEAN, lag \in 0..1 : FrameStep(dt, near, lag)
    /\ det_pc' = "loop"
    /\ UNCHANGED <<lmVars, running, hd_pc, cfgVars>>

DetectionThread ==
    \/ LoopEnter
    \/ LoopExit
    \/ ReadFrame
    \/ LoopGuard
    \/ ProcessFrame
    \/ ProcessFrameRaises
    \/ UpdateStep

\* what the steps of HairPullingDetector.cleanup before line 318 leave alone
QuitFrame ==
    UNCHANGED <<detVars, audVars, lmVars, det_waiting, shutVars, loopVars,
                devVars, det_pc, cfgVars>>

\* cleanup, lines 305-312: the flag is cleared, the camera closed, the
\* thread joined with timeout=1.0
HdCleanupBegin ==
    /\ hd_pc = "idle"
    /\ running' = FALSE
    /\ hd_pc' = IF loop_alive THEN "join" ELSE "rest"
    /\ QuitFrame

\* lines 312-316: the thread has ended, join returns
JoinReturns ==
    /\ hd_pc = "join"
    /\ ~loop_alive
    /\ hd_pc' = "rest"
    /\ UNCHANGED running
    /\ QuitFrame

\* lines 312-314: the second is over and the thread is still alive: a
\* warning is logged and cleanup goes on
JoinTimesOut ==
    /\ hd_pc = "join"
    /\ loop_alive
    /\ hd_pc' = "rest"
    /\ UNCHANGED running
    /\ QuitFrame

\* lines 318-323: gesture_detector.cleanup closes the models,
\* audio_manager.cleanup (nothing registered, an empty cache) stops and
\* quits the mixer, the configuration is saved, cleanup returns
HdCleanupRest ==
    /\ hd_pc = "rest"
    /\ temp_files = <<>> /\ cache_files = {}
    /\ playback_lock = 0
    /\ mixer_init
    /\ playing' = FALSE
    /\ music' = 0
    /\ mixer_init' = FALSE
    /\ cleanups' = cleanups + 1
    /\ cl_pc' = "done"
    /\ cl_registered' = {}
    /\ cl_attempted' = {}
    /\ cl_deleted' = {}
    /\ cl_reported' = <<>>
    /\ del_result' = "none"
    /\ cl_todo' = <<>>
    /\ cl_attempt' = 0
    /\ failed_deletions' = <<>>
    /\ hd_pc' = "returned"
    /\ UNCHANGED <<detVars, lmVars, det_waiting, loopVars, devVars, windows,
                   running, det_pc, cfgVars>>
    /\ UNCHANGED <<use_tts, audio_files, temp_files, playback_lock, tts_cache_limit,
                   cache_files, fs_clock, pc, message, current_size, file_list,
                   file_path, plays, did_synth, tried_failed, failed_logged,
                   last_evict, replaced, prev_done, last_done, cache_mode>>

HdCleanup ==
    \/ HdCleanupBegin
    \/ JoinReturns
    \/ JoinTimesOut
    \/ HdCleanupRest

\* the detector started with a short required duration and cooldown
InitShutdown ==
    /\ InitDetector
    /\ InitNoLandmarks
    /\ InitAudioQuiet
    /\ scenario = FALSE
    /\ required_duration = 2
    /\ trigger_cooldown \in Cooldowns

NextShutdown ==
    \/ DetectionThread
    \/ HdCleanup

\* both threads keep running
FairShutdown ==
    /\ WF_vars(DetectionThread)
    /\ WF_vars(HdCleanup)

SpecShutdown == InitShutdown /\ [][NextShutdown]_vars /\ FairShutdown

-----------------------------------------------------------------------------
(* Claims about the TTS cache and playback *)

\* no thread is between the existence test and the end of its eviction pass
NoResolveRunning == \A w \in Workers : pc[w] \notin ResolvePcs

\* C6: after any sequence of resolves the cache is within the limit, or a
\* file that is still there was left by a logged failed deletion.
C6_WithinLimitOrLogged ==
    NoResolveRunning =>
        \/ CacheSize <= tts_cache_limit
        \/ \E f \in cache_files : f.key \in failed_logged

C6_Witness ==
    /\ \A w \in Workers : pc[w] = "idle"
    /\ plays >= 2
    /\ CacheSize > tts_cache_limit
    /\ failed_logged # {}

\* C7: a message resolved twice in a row is synthesized only once: the second
\* call finds the artifact of the first.
C7_SynthesisOnlyOnce ==
    (last_done.msg # 0 /\ prev_done.msg = last_done.msg /\ prev_done.resolved)
        => ~last_done.synth

\* C8 (as stated): an eviction never leaves behind an evictable entry whose
\* last access (synthesis or cache-hit playback) is older.
C8_EvictsLeastRecentlyAccessed ==
    ~last_evict.older_access_left

\* C8 (amended): an eviction never leaves behind an evictable entry whose
\* modification (synthesis) time is older.
C8_EvictsOldestModifiedFirst ==
    ~last_evict.older_mtime_left

C8_Witness ==
    last_evict.key # 0 /\ last_evict.older_access_left

\* C9: after the ten 2 MB messages the five earliest are evicted, the five
\* latest remain and the total is within the 10 MB limit.
C9_TenMessagesLeaveLatestFive ==
    (plays = 10 /\ NoResolveRunning) =>
        /\ {f.key : f \in cache_files} = {CachedAudioPath(m) : m \in 6..10}
        /\ Cardinality(cache_files) = 5
        /\ CacheSize <= tts_cache_limit

C9_Witness ==
    /\ cache_mode = "ten" /\ plays = 10
    /\ \A w \in Workers : pc[w] = "idle"
    /\ Cardinality(cache_files) = 5

\* C10: a playback never starts while another stream is still playing.
C10_NoPlaybackReplaced ==
    ~replaced

\* C11: the thread that calls play_message (the detection loop) never waits
\* for the playback lock, in either mode.
C11_PlayMessageNeverBlocks ==
    ~det_waiting

\* C36: the eviction pass that _play_tts_message runs right after
\* synthesizing never deletes the new artifact: the file just written is
\* still there when the same call goes on to load and play it.
C36_NewArtifactSurvivesEviction ==
    \A w \in Workers :
        (pc[w] = "lock_play" /\ did_synth[w]) => Exists(CachedAudioPath(message[w]))

\* C37: two background playback tasks that run at the same time for the
\* same message never both synthesize it (and so never both register it).
C37_ConcurrentTasksSynthesizeOnce ==
    \A v \in Workers, w \in Workers :
        (v # w /\ message[v] # 0 /\ message[v] = message[w])
            => ~(did_synth[v] /\ did_synth[w])

\* C38: _enforce_cache_limit deletes no more than necessary, also when
\* several passes run at the same time: a file is removed from the cache
\* only while the total size of the cache is over the limit.
C38_DeletesOnlyWhileOverLimit ==
    [][(\E f \in cache_files : \A g \in cache_files' : g.key # f.key)
          => CacheSize > tts_cache_limit]_vars

\* C39: after the constructor, set_mode, reload_audio_files or
\* _load_stock_audio has returned, use_tts = false implies a non-empty
\* audio_files, and a load in stock mode from a folder that is unreadable
\* or holds no audio file leaves the manager in TTS mode.
C39_StockModeHasPool ==
    /\ ~use_tts => audio_files # {}
    /\ \A folder \in Folders :
          (~folder.readable \/ \A f \in folder.files : ~IsAudio(f))
              => /\ LoadStockAudio(FALSE, folder).use_tts
                 /\ Constructor(FALSE, folder, TRUE).use_tts

\* stock mode playing a file of its pool after the pool was loaded again
C39_Witness ==
    /\ ~use_tts /\ audio_files = {-2}
    /\ playing /\ music = -2
    /\ plays >= 2 /\ replaced

\* C21: under fair scheduling and finite playback durations, every
\* dispatched playback task eventually acquires the lock and plays its audio.
C21_DispatchedPlaybackPlays ==
    \A w \in Workers : (pc[w] = "start") ~> (pc[w] = "busy")

\* the half of C21 about the lock: a dispatched task is never blocked
\* forever, its thread always ends
DispatchedPlaybackReturns ==
    \A w \in Workers : (pc[w] = "start") ~> (pc[w] = "idle")

\* C24: a load or play that failed on the audio device is followed by a
\* reset of the device: once the failure has been handled the mixer is
\* usable again, so that a later trigger can play.
C24_PlaybackFailureResetsDevice ==
    play_failed => device_ok

-----------------------------------------------------------------------------
(* Claims about the trigger state machine *)

\* C1: any two trigger callbacks are more than trigger_cooldown apart, and a
\* PULLING state that a frame leaves unfired is one whose trigger the
\* cooldown suppressed.
C1_TriggersSpacedByCooldown ==
    /\ trigger_count >= 2 => last_triggered - prev_triggered > trigger_cooldown
    /\ state = "PULLING" => now - last_triggered <= trigger_cooldown

C1_Witness ==
    fired /\ trigger_count >= 2 /\ trigger_cooldown > 0

\* C2: PULLING is reached, or a trigger fires, only when the near run,
\* measured from the frame that entered DETECTING to its last near frame,
\* has lasted at least required_duration.
C2_NoPullingBeforeDuration ==
    (state = "PULLING" \/ fired) =>
        last_near_frame - entered_detecting >= required_duration

C2_Witness ==
    /\ required_duration > 0
    /\ state = "IDLE" /\ ~frame_near /\ run_start = -1
    /\ last_near_frame > entered_detecting
    /\ entered_detecting > StartTime
    /\ trigger_count = 0

\* C3 (as stated): a run reaches PULLING exactly once, however long it lasts.
C3_PullingOncePerRun ==
    required_duration > 0 => pulls_in_run <= 1

\* C3 (amended): a run whose near frames span at least required_duration has
\* reached PULLING at least once.
C3_PullingAtLeastOncePerRun ==
    (run_start # -1 /\ last_near_frame - run_start >= required_duration)
        => pulls_in_run >= 1

C3_Witness ==
    /\ run_start # -1 /\ required_duration > 0
    /\ last_near_frame - run_start >= required_duration
    /\ pulls_in_run >= 2

\* C4: in the concrete scenario exactly two triggers fire, at least 3 s apart.
C4_ScenarioTwoTriggers ==
    /\ trigger_count <= 2
    /\ now - StartTime >= ScenarioEnd - 1 =>
          /\ trigger_count = 2
          /\ last_triggered - prev_triggered >= DefaultTriggerCooldown

C4_Witness ==
    scenario /\ now - StartTime >= ScenarioEnd - 1 /\ trigger_count = 2

\* C5: a trigger fires at t only if t - last_triggered > trigger_cooldown and
\* the near duration (last near frame - since) >= required_duration.
C5_BothGatesHold ==
    fired =>
        /\ now - prev_triggered > trigger_cooldown
        /\ last_triggered = now
        /\ last_hand_near_head - hand_near_head_time >= required_duration

C5_Witness ==
    fired /\ trigger_count >= 2 /\ required_duration > 0 /\ trigger_cooldown > 0

C27_NeverPullingAfterFrame ==
    state \in {"IDLE", "DETECTING"}

\* C27 (amended): a frame step whose trigger fires ends in IDLE, and a frame
\* step ends in PULLING only when the cooldown had not elapsed when
\* _trigger_alert read the clock: PULLING is then held until a later frame
\* fires the trigger or finds the grace window expired.
C27_PullingHeldOnlyInsideCooldown ==
    /\ fired => state = "IDLE"
    /\ state = "PULLING" =>
          /\ ~fired
          /\ now - last_triggered <= trigger_cooldown
          /\ hand_near_head_duration >= required_duration

\* PULLING held over a frame: a near = false frame cannot enter PULLING
C27_Witness ==
    /\ state = "PULLING" /\ ~frame_near
    /\ trigger_count >= 1
    /\ now - last_triggered <= trigger_cooldown

\* C28 (as stated): the timer since and its derived duration are set only in
\* DETECTING or PULLING, and are cleared whenever the state is IDLE.
C28_SinceClearedInIdle ==
    state = "IDLE" => hand_near_head_time = 0 /\ hand_near_head_duration = 0

\* C28 (amended): in DETECTING or PULLING since is the time of the frame that
\* left IDLE and the duration is the time from since to the last near frame;
\* the return to IDLE after the grace window clears the duration only, and
\* the return after a trigger clears nothing: since keeps its value in IDLE
\* until the next frame that leaves IDLE overwrites it.
C28_SinceSetOnLeavingIdle ==
    /\ state \in {"DETECTING", "PULLING"} =>
          /\ hand_near_head_time = entered_detecting
          /\ hand_near_head_duration = last_hand_near_head - hand_near_head_time
    /\ run_start = -1 => state = "IDLE" /\ hand_near_head_duration = 0
    /\ (state = "IDLE" /\ trigger_count > 0) => hand_near_head_time > 0

\* the return to IDLE after a trigger, then after the grace window
C28_Witness ==
    /\ state = "IDLE" /\ run_start = -1 /\ trigger_count > 0
    /\ hand_near_head_time > 0 /\ hand_near_head_duration = 0
    /\ required_duration > 0

C32_PullingHasFullDuration ==
    /\ state = "PULLING" => hand_near_head_duration >= required_duration
    /\ \A dt \in 1..MaxDt, near \in BOOLEAN, lag \in 0..1 :
          LET d1 == CheckForPulling(Fields, near, now + dt)
          IN d1.state = "PULLING" =>
                /\ d1.duration >= required_duration
                /\ TriggerFires(d1, now + dt + lag)
                      <=> CooldownPassed(now + dt + lag, d1.last_trig, trigger_cooldown)

\* PULLING held by the cooldown over a near frame, the duration still growing
C32_Witness ==
    /\ state = "PULLING" /\ frame_near /\ ~fired
    /\ required_duration > 0
    /\ hand_near_head_duration > required_duration

\* C33 (as stated): a trigger callback fires only during a frame whose
\* proximity signal is near = true, never on a near = false frame.
C33_FiresOnlyOnNearFrame ==
    fired => frame_near

\* C33 (amended): a trigger fires on a near = true frame, or on a
\* near = false frame that _check_for_pulling found inside the grace window
\* of the last near frame while the state was PULLING, held by the cooldown:
\* the frame leaves the duration and the time of the last near frame as
\* they were, and no trigger fires on a near = false frame after the grace
\* window.
C33_FiresOnNearOrGraceFrame ==
    [][(fired' /\ now' > now /\ ~frame_near')
        => /\ state = "PULLING" /\ state' = "IDLE"
           /\ now - last_triggered <= trigger_cooldown
           /\ last_hand_near_head' = last_hand_near_head
           /\ hand_near_head_duration' = hand_near_head_duration
           /\ hand_near_head_duration >= required_duration
           /\ \E lag \in 0..1 :
                 /\ now' - lag > now
                 /\ now' - lag - last_hand_near_head <= GraceTicks]_vars

\* a trigger fired on a near = false frame
C33_Witness ==
    /\ fired /\ ~frame_near /\ state = "IDLE"
    /\ last_triggered = now
    /\ now - last_hand_near_head <= GraceTicks
    /\ trigger_count >= 2

\* the longest time from a moment of a run of near frames to the next
\* trigger: a frame to leave IDLE, the required duration or the cooldown,
\* and the frame and the clock reading that overshoot it
CycleBound ==
    (IF 2 * MaxDt - 1 + required_duration >= trigger_cooldown + MaxDt
     THEN 2 * MaxDt - 1 + required_duration
     ELSE trigger_cooldown + MaxDt) + 1

\* C34: while near stays true on every frame the trigger fires again and
\* again: from every moment that leaves room for a cycle before the time
\* horizon, a later trigger fires, and the machine is then back in IDLE.
C34_FiresAgainWhileNear ==
    \A n \in 0..MaxTime :
        (now = StartTime + n /\ n + CycleBound <= MaxTime)
            ~> (fired /\ state = "IDLE" /\ last_triggered > StartTime + n)

\* the second trigger of one run of near frames
C34_Witness ==
    /\ fired /\ frame_near /\ state = "IDLE"
    /\ trigger_count = 2
    /\ last_near_frame - run_start > trigger_cooldown
    /\ required_duration > 0 /\ trigger_cooldown > 0

-----------------------------------------------------------------------------
(* Claims about the proximity evaluation *)

\* the last frame had hand landmarks and face landmarks
BothVisible ==
    /\ hand_results.multi_hand_landmarks # <<>>
    /\ face_results.present
    /\ face_results.multi_face_landmarks # <<>>

\* the last frame lacked the hand landmarks or the face landmarks
MissingLandmarks == now > StartTime /\ ~BothVisible

\* the hands that the last frame saw
SeenHands == {hand_results.multi_hand_landmarks[n] : n \in DOMAIN hand_results.multi_hand_landmarks}

\* the landmarks of a hand that are at or above the eye line of the face
AtOrAboveEyeLine(hand) == {lm \in hand : AboveEyeLevel(lm, EyeLevelPixels(SceneFace))}

\* the face landmarks the evaluation looks at: every other index
SampledFace == {i \in DOMAIN SceneFace : i % 2 = 0}

\* the region points of baseline mode: the sampled face landmarks at or
\* above the eye line
RegionPoints == {i \in SampledFace : AboveEyeLevel(SceneFace[i], EyeLevelPixels(SceneFace))}

\* some landmark of the hand at or above the eye line is nearer than
\* max_head_distance to a region point
PairWithinDistance(hand) ==
    \E lm \in AtOrAboveEyeLine(hand), i \in RegionPoints :
        Within(lm, SceneFace[i], max_head_distance)

\* C12: a frame without hand landmarks or without face landmarks evaluates
\* to near = false, and the frame changes the detector exactly as
\* _check_for_pulling and _trigger_alert do on a near = false frame.
C12_MissingLandmarksAreNotNear ==
    [][MissingLandmarks' =>
          /\ ~frame_near'
          /\ LET d == TriggerAlert(CheckForPulling(Fields, FALSE, now'), now')
             IN /\ state' = d.state
                /\ hand_near_head_time' = d.since
                /\ hand_near_head_duration' = d.duration
                /\ last_hand_near_head' = d.last_near
                /\ last_triggered' = d.last_trig]_vars

C12_Witness ==
    /\ MissingLandmarks
    /\ ~frame_near /\ state = "IDLE"
    /\ last_near_frame = now - MaxDt

C15_FullHeadContactIsNear ==
    (BothVisible /\ full_head_detection
       /\ \E hand \in SeenHands : \E lm \in hand, i \in SampledFace :
             Within(lm, SceneFace[i], 20))
        => frame_near

C15_Witness ==
    /\ BothVisible /\ full_head_detection /\ frame_near
    /\ max_head_distance = 10
    /\ hand_results.multi_hand_landmarks = <<{AtChin}>>

\* the hand landmark lm is in a pair that counts as a match for its hand
MatchingLandmark(hand, lm) ==
    \/ /\ full_head_detection
       /\ \E i \in SampledFace : Within(lm, SceneFace[i], 20)
    \/ /\ Cardinality(AtOrAboveEyeLine(hand)) >= 3
       /\ lm \in AtOrAboveEyeLine(hand)
       /\ \E i \in RegionPoints : Within(lm, SceneFace[i], max_head_distance)

\* C30: whenever the evaluation returns near = true, contact_points and
\* above_eye_points together hold exactly one point: the pixel of a matching
\* landmark of the first hand of the list that has a match.
C30_OnePointRecordedOnMatch ==
    (BothVisible /\ frame_near) =>
        LET pts == contact_points \o above_eye_points
            hands == hand_results.multi_hand_landmarks
        IN /\ Len(pts) = 1
           /\ \E n \in DOMAIN hands :
                 /\ \A k \in 1..(n - 1) : \A lm \in hands[k] : ~MatchingLandmark(hands[k], lm)
                 /\ \E lm \in hands[n] :
                       MatchingLandmark(hands[n], lm) /\ pts[1] = Point(lm)

\* a hand with several matching landmarks, one point recorded
C30_Witness ==
    /\ BothVisible /\ frame_near
    /\ hand_results.multi_hand_landmarks = <<{AtForehead, FarAbove, InFront}>>
    /\ contact_points \o above_eye_points = <<Point(AtForehead)>>

\* C35: for every frame (same hand landmarks, face landmarks and
\* max_head_distance), near = true with full_head_detection = false implies
\* near = true with full_head_detection = true; the signal of the frame is
\* the one of the mode that is set.
C35_FullHeadOnlyWidens ==
    /\ HandNearHeadIn(FALSE, hand_results, face_results)
          => HandNearHeadIn(TRUE, hand_results, face_results)
    /\ frame_near = HandNearHeadIn(full_head_detection, hand_results, face_results)

\* full-head mode near through the above-eye check alone: no hand landmark
\* is in contact with the face
C35_Witness ==
    /\ BothVisible /\ full_head_detection /\ frame_near
    /\ hand_results.multi_hand_landmarks = <<{InFront, FarAbove, AtOddForehead}>>
    /\ above_eye_points # <<>> /\ contact_points = <<>>

\* C31 as stated: after any evaluation that returns near = false, frames
\* without a hand or without a face included, contact_points and
\* above_eye_points are empty.
C31_NoPointsAfterNotNear ==
    ~frame_near => (contact_points = <<>> /\ above_eye_points = <<>>)

\* C31, amended: the lists are emptied only by an evaluation that has hand
\* and face landmarks: after such an evaluation returns near = false they
\* are empty, and an evaluation without a hand or without a face returns
\* near = false and leaves in them what the last full evaluation recorded.
C31_PointsKeptWhenLandmarksMissing ==
    /\ []((BothVisible /\ ~frame_near) =>
             (contact_points = <<>> /\ above_eye_points = <<>>))
    /\ [][~BothVisible' =>
             (~frame_near' /\ UNCHANGED <<contact_points, above_eye_points>>)]_vars

\* a frame without a hand after a near frame: the point is still recorded
C31_Witness ==
    /\ hand_results = NoHands
    /\ ~frame_near
    /\ scene_hands = <<{AtForehead, FarAbove, InFront}>>
    /\ contact_points \o above_eye_points = <<Point(AtForehead)>>

-----------------------------------------------------------------------------
(* Claims about the configuration *)

\* C25: every configuration that load_config / validate_config or the
\* settings tab hands to the core has required_duration > 0,
\* trigger_cooldown >= 0, max_head_distance > 0 and tts_cache_limit > 0.
C25_ConfigWithinRanges ==
    /\ required_duration > 0
    /\ trigger_cooldown >= 0
    /\ max_head_distance > 0
    /\ tts_cache_limit > 0

\* C40: after any sequence of settings changes saved through the UI a
\* reset yields the factory defaults: the configuration the detector holds
\* after reset_config is DEFAULT_CONFIG as the module defines it.
C40_ResetYieldsFactoryDefaults ==
    config_rebound =>
        /\ trigger_cooldown = DefaultTriggerCooldown
        /\ required_duration = DefaultRequiredDuration
        /\ max_head_distance = DefaultMaxHeadDistance
        /\ full_head_detection = FALSE

-----------------------------------------------------------------------------
(* Claims about cleanup and the deletion with retries *)

\* C16: _delete_temp_file_with_retry makes at most Retries attempts and ends
\* with a result, True or False: it never raises to its caller.
C16_DeleteNeverRaises ==
    /\ cl_attempt < Retries
    /\ del_result \in {"none", "true", "false"}

\* C17: a call of cleanup that has returned has attempted the deletion of
\* every temp file that was registered, also after a failed deletion and also
\* when the mixer was already shut down.
C17_CleanupAttemptsEveryTempFile ==
    cl_pc = "done" => cl_registered \subseteq cl_attempted

\* C18: the deletion loop of cleanup removes no content-addressed cache
\* artifact (every file of the cache folder is one).
C18_CleanupKeepsCacheArtifacts ==
    cl_deleted = {}

\* C19: a step that removes a file of the cache is taken while the playback
\* lock is held, and never removes the file that is being played.
C19_CacheFilesRemovedUnderLock ==
    [][\A f \in cache_files :
          (\A g \in cache_files' : g.key # f.key)
              => playback_lock # 0 /\ ~(playing /\ music = f.key)]_vars

\* C22: cleanup stops a stream that is playing when it is called: once
\* cleanup has been called the stream does not run to its end, cleanup's
\* music.stop() ends it.
C22_CleanupStopsActivePlayback ==
    [][~(cl_pc = "wait" /\ playing /\ ~playing' /\ cl_pc' = "wait")]_vars

-----------------------------------------------------------------------------
(* Claims about the shutdown of the detection loop *)

\* the half of C23 about termination: after the flag is cleared the
\* detection loop eventually terminates
LoopTerminatesAfterFlagCleared == (~running) ~> (det_pc = "done")

\* the half of C23 about the time after cleanup: once cleanup has returned
\* no state-machine update and no trigger callback is performed
QuietAfterCleanupReturned ==
    [][hd_pc = "returned" =>
          UNCHANGED <<state, hand_near_head_time, hand_near_head_duration,
                      last_hand_near_head, last_triggered, trigger_count>>]_vars

\* C23: after HairPullingDetector.cleanup clears the running flag the
\* detection loop eventually terminates, and once cleanup has returned no
\* further state-machine update or trigger callback is performed.
C23_LoopStopsAndStaysQuiet ==
    /\ LoopTerminatesAfterFlagCleared
    /\ QuietAfterCleanupReturned

-----------------------------------------------------------------------------
(* Claims about failures of the trigger notification *)

\* C20: after a trigger whose notification failed the detection loop is
\* still running and the state machine has completed its transition:
\* last_triggered is set and the state is back to IDLE.
C20_NotificationFailureKeepsLoop ==
    notify_failed # "none" =>
        /\ loop_alive
        /\ last_triggered = now
        /\ state = "IDLE"

=============================================================================
